---------------------------- MODULE Spec2Model ----------------------------
(***************************************************************************)
(* Model of the audiobook organizer: ebooksort.py (staging, metadata and   *)
(* cover resolution, placement) and write_tags.py (the tagging pass).      *)
(*                                                                         *)
(* A string is a sequence of one-character strings, a path is a sequence   *)
(* of names, and the file system is a function from file paths to file     *)
(* nodes together with a set of directory paths.                           *)
(***************************************************************************)
EXTENDS Integers, Sequences, FiniteSets, TLC

(***************************************************************************)
(* Strings (str methods and the re calls the code uses)                    *)
(***************************************************************************)
Lowers == <<"a","b","c","d","e","f","g","h","i","j","k","l","m",
            "n","o","p","q","r","s","t","u","v","w","x","y","z">>
Uppers == <<"A","B","C","D","E","F","G","H","I","J","K","L","M",
            "N","O","P","Q","R","S","T","U","V","W","X","Y","Z">>
Digits == {"0","1","2","3","4","5","6","7","8","9"}
\* \s of the re module, restricted to the alphabet of the model
Spaces == {" "}
\* the class [\s_-] of the patterns of get_base_name
Seps == {" ", "_", "-"}
\* the class [\\/*?<>|":] of sanitize_filename
Illegal == {"\\", "/", "*", "?", "<", ">", "|", "\"", ":"}

IsUpper(c) == \E i \in 1..26 : Uppers[i] = c
IsLower(c) == \E i \in 1..26 : Lowers[i] = c
IsCased(c) == IsUpper(c) \/ IsLower(c)
LowerCh(c) == IF IsUpper(c) THEN Lowers[CHOOSE i \in 1..26 : Uppers[i] = c] ELSE c
UpperCh(c) == IF IsLower(c) THEN Uppers[CHOOSE i \in 1..26 : Lowers[i] = c] ELSE c

\* str.lower()
lower(s) == [i \in 1..Len(s) |-> LowerCh(s[i])]

\* str.title(): a cased character is upper-cased when it follows an uncased
\* character (or starts the string) and lower-cased otherwise
title(s) ==
  [i \in 1..Len(s) |->
     IF i > 1 /\ IsCased(s[i-1]) THEN LowerCh(s[i]) ELSE UpperCh(s[i])]

\* str.strip()
strip(s) ==
  LET ns == {i \in 1..Len(s) : s[i] \notin Spaces}
  IN IF ns = {} THEN <<>>
     ELSE SubSeq(s, CHOOSE i \in ns : \A j \in ns : i <= j,
                    CHOOSE i \in ns : \A j \in ns : i >= j)

RECURSIVE KeepIdx(_, _, _)
\* the subsequence of s at the indices of K that are >= i
KeepIdx(s, K, i) ==
  IF i > Len(s) THEN <<>>
  ELSE (IF i \in K THEN <<s[i]>> ELSE <<>>) \o KeepIdx(s, K, i + 1)

\* re.sub(r'\s+', ' ', s)
collapse_ws(s) ==
  KeepIdx([i \in 1..Len(s) |-> IF s[i] \in Spaces THEN " " ELSE s[i]],
          {i \in 1..Len(s) : ~(s[i] \in Spaces /\ i > 1 /\ s[i-1] \in Spaces)}, 1)

\* str.endswith(suffix)
endswith(s, suf) ==
  Len(suf) <= Len(s) /\ SubSeq(s, Len(s) - Len(suf) + 1, Len(s)) = suf

\* sanitize_filename(name)
sanitize_filename(name) ==
  collapse_ws(strip(KeepIdx(name, {i \in 1..Len(name) : name[i] \notin Illegal}, 1)))

\* os.path.splitext(filename)[0]: the extension starts at the last dot, unless
\* only dots precede it
splitext0(s) ==
  LET dots == {i \in 1..Len(s) : s[i] = "." /\ \E j \in 1..(i-1) : s[j] # "."}
  IN IF dots = {} THEN s
     ELSE SubSeq(s, 1, (CHOOSE i \in dots : \A j \in dots : i >= j) - 1)

\* the end (exclusive) of the longest run of characters of S starting at i
SpanEnd(s, i, S) ==
  CHOOSE j \in i..(Len(s) + 1) :
    /\ \A k \in i..(j-1) : s[k] \in S
    /\ (j = Len(s) + 1 \/ s[j] \notin S)

\* a literal matched under re.IGNORECASE at index i
LitAt(s, i, w) ==
  /\ i + Len(w) - 1 <= Len(s)
  /\ \A k \in 1..Len(w) : LowerCh(s[i + k - 1]) = w[k]

(***************************************************************************)
(* The patterns of get_base_name.  A pattern is                            *)
(*   lead  (lit opt?)  \s*?  \d+  close  $?                                *)
(* lead: "sep+" for [\s_-]+ or "sp*" for \s*; lit a lower-case literal;    *)
(* opt the optional last letter; midsp whether \s* stands before the       *)
(* digits; close the literal after the digits; anchored for $.             *)
(***************************************************************************)
Pat(lead, lit, opt, midsp, close, anchored) ==
  [lead |-> lead, lit |-> lit, opt |-> opt, midsp |-> midsp,
   close |-> close, anchored |-> anchored]

patterns == <<
  Pat("sep+", <<"p","a","r">>, <<"t">>, TRUE, <<>>, FALSE),
  Pat("sep+", <<"c","h","a","p","t","e">>, <<"r">>, TRUE, <<>>, FALSE),
  Pat("sep+", <<"c","a","p">>, <<>>, TRUE, <<>>, FALSE),
  Pat("sep+", <<"c","d">>, <<>>, TRUE, <<>>, FALSE),
  Pat("sep+", <<>>, <<>>, FALSE, <<>>, TRUE),
  Pat("sp*", <<"(">>, <<>>, FALSE, <<")">>, TRUE) >>

\* the end (exclusive) of the match of pattern p that starts at index i of s,
\* or 0 when p does not match at i.  Every quantifier is greedy and no class
\* overlaps what follows it, so the greedy choice is the only candidate.
MatchEnd(p, s, i) ==
  LET a == IF p.lead = "sep+" THEN SpanEnd(s, i, Seps) ELSE SpanEnd(s, i, Spaces)
      leadOk == p.lead = "sp*" \/ a > i
      b == a + Len(p.lit)
      c == IF Len(p.opt) = 1 /\ LitAt(s, b, p.opt) THEN b + 1 ELSE b
      d == IF p.midsp THEN SpanEnd(s, c, Spaces) ELSE c
      e == SpanEnd(s, d, Digits)
      f == e + Len(p.close)
  IN IF /\ leadOk
        /\ LitAt(s, a, p.lit)
        /\ e > d
        /\ LitAt(s, e, p.close)
        /\ (p.anchored => f = Len(s) + 1)
     THEN f ELSE 0

RECURSIVE SubDel(_, _, _)
\* re.sub(p, '', s, flags=re.IGNORECASE) from index i on: leftmost matches,
\* not overlapping
SubDel(p, s, i) ==
  IF i > Len(s) THEN <<>>
  ELSE LET e == MatchEnd(p, s, i)
       IN IF e > 0 THEN SubDel(p, s, e) ELSE <<s[i]>> \o SubDel(p, s, i + 1)

RECURSIVE ApplyPatterns(_, _)
\* the loop over patterns: each substitution is followed by strip()
ApplyPatterns(s, k) ==
  IF k > Len(patterns) THEN s
  ELSE ApplyPatterns(strip(SubDel(patterns[k], s, 1)), k + 1)

\* get_base_name(filename)
get_base_name(filename) ==
  LET name_without_extension == splitext0(filename)
      base_name == strip(collapse_ws(ApplyPatterns(name_without_extension, 1)))
  IN IF base_name # <<>> THEN base_name ELSE name_without_extension

\* str(n) for a natural number
RECURSIVE Dec(_)
Dec(n) ==
  LET d == <<"0","1","2","3","4","5","6","7","8","9">>
  IN IF n < 10 THEN <<d[n + 1]>> ELSE Dec(n \div 10) \o <<d[(n % 10) + 1]>>

(***************************************************************************)
(* File system: fs.files maps the path of every file to its node, fs.dirs  *)
(* is the set of directory paths.                                          *)
(***************************************************************************)
\* the tags of an audio file (cover: the embedded picture, "" for none)
NoTags == [author |-> <<>>, album |-> <<>>, track |-> 0, total |-> 0, cover |-> ""]
\* the record of a metadata.json
NoMeta == [title |-> <<>>, authors |-> <<>>, chapters |-> <<>>]
\* a file: its content, its tags (audio), its parsed record (metadata.json)
FileNode(c) == [c |-> c, tags |-> NoTags, meta |-> NoMeta]

IsPrefix(a, p) == Len(a) <= Len(p) /\ SubSeq(p, 1, Len(a)) = a
Last(p) == p[Len(p)]
\* os.path.dirname / os.path.join with one component
dirname(p) == SubSeq(p, 1, Len(p) - 1)
join(p, n) == IF n = <<>> THEN p ELSE Append(p, n)

exists(fs, p) == p \in DOMAIN fs.files \/ p \in fs.dirs
isdir(fs, p) == p \in fs.dirs
isfile(fs, p) == p \in DOMAIN fs.files
Under(fs, d) == {q \in (DOMAIN fs.files) \cup fs.dirs : IsPrefix(d, q) /\ q # d}
\* os.listdir(d)
listdir(fs, d) == {q[Len(d) + 1] : q \in Under(fs, d)}
\* os.makedirs(d, exist_ok=True)
makedirs(fs, d) == [fs EXCEPT !.dirs = @ \cup {SubSeq(d, 1, k) : k \in 1..Len(d)}]
\* open(p, 'w') ... write: creates or replaces the file
write(fs, p, node) ==
  [fs EXCEPT !.files = [q \in (DOMAIN @) \cup {p} |-> IF q = p THEN node ELSE @[q]]]
\* os.remove(p)
remove(fs, p) == [fs EXCEPT !.files = [q \in (DOMAIN @) \ {p} |-> @[q]]]
\* os.rename(a, b): the file or tree a becomes b; an existing file b is replaced
rename(fs, a, b) ==
  LET re(q) == b \o SubSeq(q, Len(a) + 1, Len(q))
      movedF == {q \in DOMAIN fs.files : IsPrefix(a, q)}
      movedD == {q \in fs.dirs : IsPrefix(a, q)}
      keptF == (DOMAIN fs.files) \ movedF
      newF == {re(q) : q \in movedF}
  IN [files |-> [q \in keptF \cup newF |->
                   IF q \in newF THEN fs.files[CHOOSE x \in movedF : re(x) = q]
                   ELSE fs.files[q]],
      dirs |-> (fs.dirs \ movedD) \cup {re(q) : q \in movedD}]
\* os.rmdir(d) succeeds on an empty directory only
rmdir_ok(fs, d) == isdir(fs, d) /\ Under(fs, d) = {}
rmdir(fs, d) == [fs EXCEPT !.dirs = @ \ {d}]

\* a path that ends in a separator (its last name is empty) names the
\* directory before the separator
norm(p) == IF p # <<>> /\ Last(p) = <<>> THEN dirname(p) ELSE p

\* shutil.move(src, dst): into dst when dst is a directory, else onto dst
move_target(fs, src, dst) ==
  IF isdir(fs, norm(dst)) THEN Append(norm(dst), Last(src)) ELSE norm(dst)
shutil_move(fs, src, dst) == rename(fs, src, move_target(fs, src, dst))

\* find_unique_foldername(path); the counter is capped at MaxSuffix
MaxSuffix == 4
Suffixed(path, n) ==
  Append(dirname(path), Last(path) \o <<" ", "(">> \o Dec(n) \o <<")">>)
\* os.path.exists(path): a path that ends in a separator exists if the name
\* before the separator is a directory
path_exists(fs, path) ==
  IF path # <<>> /\ Last(path) = <<>> THEN isdir(fs, dirname(path)) ELSE exists(fs, path)
unique_defined(fs, path) ==
  ~path_exists(fs, path) \/ \E n \in 2..MaxSuffix : ~exists(fs, Suffixed(path, n))
find_unique_foldername(fs, path) ==
  IF ~path_exists(fs, path) THEN path
  ELSE Suffixed(path, CHOOSE n \in 2..MaxSuffix :
                        /\ ~exists(fs, Suffixed(path, n))
                        /\ \A m \in 2..(n - 1) : exists(fs, Suffixed(path, m)))

(***************************************************************************)
(* Configuration values (config.ini, read through config_manager.py) and   *)
(* fixed names                                                             *)
(***************************************************************************)
audio_extensions == {<<".", "m", "p", "3">>, <<".", "m", "4", "b">>,
                     <<".", "f", "l", "a", "c">>, <<".", "o", "g", "g">>}
image_extensions == {<<".", "j", "p", "g">>, <<".", "p", "n", "g">>}
no_cover_folder == <<"_", "n", "o", "_", "c", "o", "v", "e", "r">>
marker_filename == <<".", "t", "a", "g", "g", "e", "d">>
min_resolution == 500

cover_jpg == <<"c", "o", "v", "e", "r", ".", "j", "p", "g">>
metadata_json == <<"m", "e", "t", "a", "d", "a", "t", "a", ".", "j", "s", "o", "n">>
itunes_cover_tmp == <<"i", "t", "u", "n", "e", "s", "_", "c", "o", "v", "e", "r", ".", "t", "m", "p">>
unclassified == <<"u", "n", "c", "l", "a", "s", "s", "i", "f", "i", "e", "d">>
Unknown == <<"U", "n", "k", "n", "o", "w", "n">>

\* f.lower().endswith(extensions)
has_ext(name, exts) == \E e \in exts : endswith(lower(name), e)
is_audio(name) == has_ext(name, audio_extensions)
is_image(name) == has_ext(name, image_extensions)

\* the directories of a run
SOURCE == << <<"/source">> >>
STAGING == << <<"/staging">> >>
DEST == << <<"/dest">> >>
unclassified_dir == Append(DEST, unclassified)
no_cover_dir == Append(DEST, no_cover_folder)

(***************************************************************************)
(* The inputs of the model: staged folders, resolver answers, images       *)
(***************************************************************************)
N_1mp3 == <<"1", ".", "m", "p", "3">>
N_2mp3 == <<"2", ".", "m", "p", "3">>
N_3mp3 == <<"3", ".", "m", "p", "3">>
N_front == <<"f", "r", "o", "n", "t", ".", "j", "p", "g">>
N_Alpha == <<"A", "l", "p", "h", "a">>
N_Beta == <<"B", "e", "t", "a">>
N_Gamma == <<"G", "a", "m", "m", "a">>
N_MyBookDir == <<"M", "y", " ", "B", "o", "o", "k">>
N_mybook1 == <<"m", "y", " ", "b", "o", "o", "k", " ", "1", ".", "m", "p", "3">>
N_my_book2 == <<"m", "y", "_", "b", "o", "o", "k", "-", "2", ".", "m", "p", "3">>
N_mybook2 == <<"m", "y", " ", "b", "o", "o", "k", " ", "2", ".", "m", "p", "3">>
N_MyBook3 == <<"M", "y", " ", "B", "o", "o", "k", " ", "3", ".", "m", "p", "3">>
N_my_cover == <<"m", "y", "_", "c", "o", "v", "e", "r", ".", "j", "p", "g">>
N_mycover == <<"m", "y", " ", "c", "o", "v", "e", "r", ".", "j", "p", "g">>
N_mybookjpg == <<"m", "y", " ", "b", "o", "o", "k", ".", "j", "p", "g">>
N_Other_Dir == <<"O", "t", "h", "e", "r", "_", "D", "i", "r">>
N_OtherDir == <<"O", "t", "h", "e", "r", " ", "D", "i", "r">>
N_x == <<"x">>
N_xmp3 == <<"x", ".", "m", "p", "3">>
N_10mp3 == <<"1", "0", ".", "m", "p", "3">>
N_1m4b == <<"1", ".", "m", "4", "b">>
N_3flac == <<"3", ".", "f", "l", "a", "c">>
N_sup21 == <<"sup2", "1", ".", "m", "p", "3">>
N_TitleD == <<"T", "i", "t", "l", "e", " ", "D">>
N_sogg == <<"s", ".", "o", "g", "g">>
N_TitleA == <<"T", "i", "t", "l", "e", " ", "A">>
N_TitleB == <<"T", "i", "t", "l", "e", " ", "B">>
N_TitleC == <<"T", "i", "t", "l", "e", " ", "C">>
N_Loose == <<"L", "o", "o", "s", "e">>
N_Extras == <<"E", "x", "t", "r", "a", "s">>
N_Author == <<"A", "u", "t", "h", "o", "r">>
N_Part1 == <<"M", "y", "B", "o", "o", "k", " ", "-", " ", "P", "a", "r", "t", " ", "1", ".", "m", "p", "3">>
N_Part2 == <<"M", "y", "B", "o", "o", "k", " ", "-", " ", "P", "a", "r", "t", " ", "2", ".", "m", "p", "3">>
N_Part1std == <<"M", "y", "B", "o", "o", "k", " ", "P", "a", "r", "t", " ", "1", ".", "m", "p", "3">>
N_Part2std == <<"M", "y", "B", "o", "o", "k", " ", "P", "a", "r", "t", " ", "2", ".", "m", "p", "3">>
N_Notes == <<"N", "o", "t", "e", "s">>
N_notes == <<"n", "o", "t", "e", "s", ".", "t", "x", "t">>
T_MyBook == <<"M", "y", " ", "B", "o", "o", "k">>
T_mybookq == <<"m", "y", " ", "b", "o", "o", "k", "?">>
T_q == <<"?">>
A_janedoe == <<"j", "a", "n", "e", " ", "d", "o", "e">>
A_JaneDoe == <<"J", "a", "n", "e", " ", "D", "o", "e">>

\* an audio file that carries an embedded picture
WithArt(c, pic) == [FileNode(c) EXCEPT !.tags.cover = pic]

\* the staged folders the model draws from: name -> (relative path -> node)
StagePool ==
  [n \in {N_Alpha, N_Beta, N_Gamma} |->
     IF n = N_Alpha
       THEN (<<N_1mp3>> :> FileNode("a1")) @@ (<<N_Notes, N_notes>> :> FileNode("n1"))
     ELSE IF n = N_Beta
       THEN (<<N_1mp3>> :> FileNode("b1")) @@ (<<N_2mp3>> :> FileNode("b2"))
            @@ (<<N_10mp3>> :> FileNode("b10")) @@ (<<N_front>> :> FileNode("front"))
     ELSE (<<N_Alpha, N_3mp3>> :> WithArt("g3", "art_g3"))]

\* the largest number of top-level folders in staging
MaxBooks == 2

\* the tree with the folders S of pool P below the directory top
TreeOf(top, P, S) ==
  LET paths == UNION {{top \o <<n>> \o r : r \in DOMAIN P[n]} : n \in S}
      k == Len(top)
  IN [files |-> [q \in paths |-> P[q[k + 1]][SubSeq(q, k + 2, Len(q))]],
      dirs |-> {top} \cup UNION {{SubSeq(q, 1, j) : j \in (k + 1)..(Len(q) - 1)} : q \in paths}]

\* the library as an earlier run left it: one book quarantined in the
\* no-cover root
Library ==
  LET book == no_cover_dir \o <<A_JaneDoe, T_MyBook>>
  IN [files |-> (Append(book, N_1mp3) :> FileNode("old1"))
                  @@ (Append(book, metadata_json) :> FileNode("old_meta")),
      dirs |-> {DEST, no_cover_dir, Append(no_cover_dir, A_JaneDoe), book}]

\* a book_data dict, and None
BD(t, a) == [some |-> TRUE, title |-> t, author |-> a]
None == [some |-> FALSE, title |-> <<>>, author |-> <<>>]
\* the answers a metadata source gives with a title
Answers == {BD(T_MyBook, A_JaneDoe), BD(T_mybookq, A_janedoe), BD(T_q, Unknown)}

\* the images the catalog serves: PIL's (width, height), <<0, 0>> unreadable
ItunesImages == {"it_1000x1000", "it_50x50", "it_600x900"}
image_size(c) ==
  IF c = "it_1000x1000" THEN <<1000, 1000>>
  ELSE IF c = "it_50x50" THEN <<50, 50>>
  ELSE IF c = "it_600x900" THEN <<600, 900>>
  ELSE <<0, 0>>
image_readable(c) == c \in {"it_1000x1000", "it_50x50", "it_600x900"}

\* analyze_cover(image_path)
analyze_cover(fs, image_path) ==
  IF ~exists(fs, image_path)
    THEN [exists |-> FALSE, has |-> FALSE, is_square |-> FALSE, is_low_quality |-> FALSE]
  ELSE LET c == fs.files[image_path].c
           width == image_size(c)[1]
           height == image_size(c)[2]
       IN IF image_readable(c)
            THEN [exists |-> TRUE, has |-> TRUE, is_square |-> (width = height),
                  is_low_quality |-> (width < min_resolution \/ height < min_resolution)]
          ELSE [exists |-> TRUE, has |-> FALSE, is_square |-> FALSE, is_low_quality |-> FALSE]

\* a gate that forgets the resolution: C5_QualityGate fails with it
is_good_cover_lax(analysis) ==
  analysis.has /\ analysis.is_square

\* analysis.get("is_square") and not analysis.get("is_low_quality")
is_good_cover(analysis) ==
  analysis.has /\ analysis.is_square /\ ~analysis.is_low_quality

(***************************************************************************)
(* State                                                                   *)
(***************************************************************************)
VARIABLES
  files,        \* path -> node, every file on disk
  dirs,         \* the directories on disk
  authors_file, \* the text of the known-authors file
  opts,         \* the command line: no_tagging, force_gemini
  pc,           \* the position of the run
  walk,         \* os.walk's stack of directories still to visit
  cur,          \* the locals of the iteration of organize_audio_files
  pace,         \* the cooldown delays since the last generative call
  hist,         \* one record per finished iteration
  errs,         \* the unexpected errors raised so far
  pre,          \* the locals of pre_organize_into_folders
  tagger,       \* write_tags.py: its arguments and what it has done
  call          \* the call of a function taken on its own: arguments, result

vars == <<files, dirs, authors_file, opts, pc, walk, cur, pace, hist, errs, pre, tagger, call>>

FSNow == [files |-> files, dirs |-> dirs]
SetFS(fs) == files' = fs.files /\ dirs' = fs.dirs

\* pre_organize_into_folders before it runs: items, the listing still to go
\* through; map, base_name_map in insertion order; src1, the source tree
\* when the scan began; src0, the source tree at
\* the start
PreNone ==
  [items |-> <<>>, map |-> <<>>, src0 |-> [files |-> <<>>, dirs |-> {}],
   src1 |-> [files |-> <<>>, dirs |-> {}]]

\* write_tags.py before it runs: mode and dry_run, the arguments; run, the
\* number of the run; skipped and processed, the folders it has skipped as
\* already tagged and handed to process_book_folder; fs0, the disk when the
\* run began; after_smart, whether the run before was a smart run that was
\* not a dry run
TaggerNone ==
  [mode |-> "none", dry_run |-> FALSE, run |-> 0, skipped |-> {}, processed |-> {},
   fs0 |-> [files |-> <<>>, dirs |-> {}], after_smart |-> FALSE]

\* no function is being called on its own
CallNone == [fn |-> "none"]

CurNone ==
  [root |-> <<>>, audio |-> {}, book_data |-> None, calls |-> <<>>, tried |-> <<>>,
   google |-> "uncalled", gdata |-> None, gemini |-> "uncalled",
   found |-> FALSE, itunes |-> "none", itimg |-> "", ddgs |-> "none",
   afn |-> <<>>, tfn |-> <<>>, title_dir |-> <<>>, final |-> <<>>,
   outcome |-> "none", err |-> FALSE,
   sub0 |-> [files |-> <<>>, dirs |-> {}], authors0 |-> <<>>]

\* the orders in which os.listdir / os.walk may give the members of S
Orders(S) ==
  {o \in [1..Cardinality(S) -> S] : \A i, j \in 1..Cardinality(S) : i # j => o[i] # o[j]}

(***************************************************************************)
(* organize_audio_files(base_dir = STAGING, dest_dir = DEST), not a dry run *)
(***************************************************************************)
\* lines 464-480: the three roots are created and os.walk scans base_dir
OrganizeStart ==
  /\ pc = "start"
  /\ LET fs == makedirs(makedirs(makedirs(FSNow, DEST), unclassified_dir), no_cover_dir)
         tops == {Append(STAGING, n) : n \in {m \in listdir(fs, STAGING) :
                                               isdir(fs, Append(STAGING, m))}}
     IN /\ SetFS(fs)
        /\ \E o \in Orders(tops) : walk' = o
  /\ pc' = "walk"
  /\ UNCHANGED <<authors_file, opts, cur, pace, hist, errs, pre, tagger, call>>

\* os.walk reaches a directory that is no longer there: it is passed over
WalkMissing ==
  /\ pc = "walk" /\ walk # <<>>
  /\ ~isdir(FSNow, Head(walk))
  /\ walk' = Tail(walk)
  /\ UNCHANGED <<files, dirs, authors_file, opts, pc, cur, pace, hist, errs, pre, tagger, call>>

SubDirs(fs, root) == {Append(root, n) : n \in {m \in listdir(fs, root) : isdir(fs, Append(root, m))}}
\* line 483: audio_files of the directory root
AudioIn(fs, root) == {n \in listdir(fs, root) : isfile(fs, Append(root, n)) /\ is_audio(n)}

\* lines 483-484 and 633-634: a directory without audio files is skipped; the
\* finally clause still sleeps
WalkNoAudio ==
  /\ pc = "walk" /\ walk # <<>>
  /\ isdir(FSNow, Head(walk))
  /\ AudioIn(FSNow, Head(walk)) = {}
  /\ \E o \in Orders(SubDirs(FSNow, Head(walk))) : walk' = o \o Tail(walk)
  /\ pace' = [pace EXCEPT !.sleeps = @ + 1]
  /\ UNCHANGED <<files, dirs, authors_file, opts, pc, cur, hist, errs, pre, tagger, call>>

\* what lies below the directory d, by relative path
SubTree(fs, d) ==
  LET rel(q) == SubSeq(q, Len(d) + 1, Len(q))
      F == {q \in DOMAIN fs.files : IsPrefix(d, q)}
  IN [files |-> [r \in {rel(q) : q \in F} |-> fs.files[d \o r]],
      dirs |-> {rel(q) : q \in {x \in fs.dirs : IsPrefix(d, x)}}]

\* lines 480-490: the next directory with audio files starts an iteration
WalkBegin ==
  /\ pc = "walk" /\ walk # <<>>
  /\ isdir(FSNow, Head(walk))
  /\ AudioIn(FSNow, Head(walk)) # {}
  /\ \E o \in Orders(SubDirs(FSNow, Head(walk))) : walk' = o \o Tail(walk)
  /\ cur' = [CurNone EXCEPT !.root = Head(walk), !.audio = AudioIn(FSNow, Head(walk)),
                            !.sub0 = SubTree(FSNow, Head(walk)), !.authors0 = authors_file]
  /\ pace' = [gem |-> FALSE, sleeps |-> 0]
  /\ pc' = IF opts.force_gemini THEN "gemini" ELSE "google"
  /\ UNCHANGED <<files, dirs, authors_file, opts, hist, errs, pre, tagger, call>>

\* line 635: the walk is over
WalkDone ==
  /\ pc = "walk" /\ walk = <<>>
  /\ pc' = "done"
  /\ UNCHANGED <<files, dirs, authors_file, opts, walk, cur, pace, hist, errs, pre, tagger, call>>

\* what get_book_info_from_google_books can return: no items, an error (caught,
\* None), a volume without title, a volume with title
GoogleOutcomes ==
  {[out |-> "none", data |-> None], [out |-> "error", data |-> None],
   [out |-> "unknown", data |-> BD(Unknown, A_janedoe)]}
  \cup {[out |-> "ok", data |-> a] : a \in Answers}

\* a condition that forgets the title "Unknown": C6_FallbackChain fails with it
needs_gemini_lax(force_gemini, book_data) ==
  force_gemini \/ ~book_data.some

\* line 496: the condition under which Gemini is asked
needs_gemini(force_gemini, book_data) ==
  force_gemini \/ ~book_data.some \/ book_data.title = Unknown

\* lines 490-493 with get_book_info_from_google_books
GoogleBooks ==
  /\ pc = "google"
  /\ \E o \in GoogleOutcomes :
       /\ cur' = [cur EXCEPT !.book_data = o.data, !.google = o.out, !.gdata = o.data,
                             !.calls = Append(@, "google")]
       /\ pc' = IF needs_gemini(opts.force_gemini, o.data) THEN "gemini" ELSE "classify"
  /\ UNCHANGED <<files, dirs, authors_file, opts, walk, pace, hist, errs, pre, tagger, call>>

\* what get_book_info_from_gemini can return: an error (caught, None), a reply
\* without Title, a reply with Title
GeminiOutcomes ==
  {[out |-> "error", data |-> None], [out |-> "unknown", data |-> BD(Unknown, Unknown)]}
  \cup {[out |-> "ok", data |-> a] : a \in Answers}

\* the delays get_book_info_from_gemini applies after its call (line 94)
gemini_sleeps == 1

\* lines 496-503 with get_book_info_from_gemini and its finally clause
Gemini ==
  /\ pc = "gemini"
  /\ \E o \in GeminiOutcomes :
       cur' = [cur EXCEPT !.book_data = o.data, !.gemini = o.out,
                          !.calls = Append(@, "gemini")]
  /\ pace' = [gem |-> TRUE, sleeps |-> gemini_sleeps]
  /\ pc' = "classify"
  /\ UNCHANGED <<files, dirs, authors_file, opts, walk, hist, errs, pre, tagger, call>>

\* line 505
classified(book_data) == book_data.some /\ book_data.title # Unknown

RECURSIVE file_lines(_)
\* "for line in f": the lines of a text, each without its newline; a last
\* line may have none
file_lines(text) ==
  LET nl == {i \in 1..Len(text) : text[i] = "\n"}
  IN IF text = <<>> THEN <<>>
     ELSE IF nl = {} THEN <<text>>
     ELSE LET i == CHOOSE x \in nl : \A y \in nl : x <= y
          IN <<SubSeq(text, 1, i - 1)>> \o file_lines(SubSeq(text, i + 1, Len(text)))

\* add_author_to_known_list(author_name), on the text of the file: the name
\* is appended in mode 'a', with a newline after it
add_author_to_known_list(text, author_name) ==
  IF author_name = <<>> \/ author_name = Unknown THEN text
  ELSE LET author_to_add == title(strip(author_name))
           lines == file_lines(text)
           existing_authors == {lower(strip(lines[i])) : i \in DOMAIN lines}
       IN IF lower(author_to_add) \notin existing_authors
            THEN text \o author_to_add \o <<"\n">> ELSE text

\* lines 506-511: the folder of a classified book in the main library
author_folder_name(book_data) == sanitize_filename(title(book_data.author))
title_folder_name(book_data) == sanitize_filename(title(book_data.title))
book_title_dir(book_data) ==
  join(join(DEST, author_folder_name(book_data)), title_folder_name(book_data))

\* the record of the calls to the metadata sources is kept until the book is
\* classified
EndResolve(c) ==
  [c EXCEPT !.google = "uncalled", !.gdata = None, !.gemini = "uncalled", !.calls = <<>>]

\* lines 505-515: the book folder is created and the author recorded
PlaceBegin ==
  /\ pc = "classify"
  /\ classified(cur.book_data)
  /\ SetFS(makedirs(FSNow, book_title_dir(cur.book_data)))
  /\ authors_file' = add_author_to_known_list(authors_file, cur.book_data.author)
  /\ cur' = [EndResolve(cur) EXCEPT !.afn = author_folder_name(cur.book_data),
                                    !.tfn = title_folder_name(cur.book_data),
                                    !.title_dir = book_title_dir(cur.book_data)]
  /\ pc' = "move"
  /\ UNCHANGED <<opts, walk, pace, hist, errs, pre, tagger, call>>

\* a target without the uniqueness suffix: C8_UnclassifiedRouting fails with it
unclassified_target_plain(fs, root) ==
  Append(unclassified_dir, Last(root))

\* line 629: where an unclassified folder goes
unclassified_target(fs, root) ==
  find_unique_foldername(fs, Append(unclassified_dir, Last(root)))

\* lines 627-629: the folder is moved whole to unclassified
MoveUnclassified ==
  /\ pc = "classify"
  /\ ~classified(cur.book_data)
  /\ unique_defined(FSNow, Append(unclassified_dir, Last(cur.root)))
  /\ SetFS(shutil_move(FSNow, cur.root, unclassified_target(FSNow, cur.root)))
  /\ cur' = [EndResolve(cur) EXCEPT !.outcome = "unclassified",
                                    !.final = unclassified_target(FSNow, cur.root)]
  /\ pc' = "finally"
  /\ UNCHANGED <<authors_file, opts, walk, pace, hist, errs, pre, tagger, call>>

RECURSIVE MoveFiles(_, _, _, _)
\* lines 518-519: for file in audio_files: shutil.move(root/file, title_dir/file)
MoveFiles(fs, names, from, to) ==
  IF names = {} THEN fs
  ELSE LET f == CHOOSE x \in names : TRUE
       IN MoveFiles(shutil_move(fs, Append(from, f), Append(to, f)), names \ {f}, from, to)

MoveAudio ==
  /\ pc = "move"
  /\ \A f \in cur.audio : ~isdir(FSNow, Append(cur.title_dir, f))
  /\ SetFS(MoveFiles(FSNow, cur.audio, cur.root, cur.title_dir))
  /\ pc' = "cover_local"
  /\ UNCHANGED <<authors_file, opts, walk, cur, pace, hist, errs, pre, tagger, call>>

(***************************************************************************)
(* Cover resolution, lines 522-560                                         *)
(***************************************************************************)
\* handle_existing_cover_file(source_folder, destination_folder) with the
\* image file the listing gives first; the result is <<fs, found>>
handle_existing_cover_file(fs, source_folder, destination_folder, file) ==
  LET source_image_path == Append(source_folder, file)
      destination_image_path == Append(destination_folder, cover_jpg)
  IN IF exists(fs, destination_image_path)
       THEN remove(fs, source_image_path)
     ELSE shutil_move(fs, source_image_path, destination_image_path)

ImagesIn(fs, folder) == {n \in listdir(fs, folder) : is_image(n)}

\* every cover source is consulted: C21_SourceOrder fails with it
after_source_always(cover_art_found, next) == next

\* lines 524 and 527 (if not cover_art_found): the step that follows a cover
\* source, next being the source that comes after it
after_source(cover_art_found, next) == IF cover_art_found THEN "meta" ELSE next

\* line 523; cur.tried lists the cover sources consulted so far
HandleExistingCover ==
  /\ pc = "cover_local"
  /\ IF ImagesIn(FSNow, cur.root) = {}
       THEN /\ pc' = after_source(FALSE, "cover_embedded")
            /\ cur' = [cur EXCEPT !.tried = Append(@, "local")]
            /\ UNCHANGED <<files, dirs>>
     ELSE /\ \E file \in ImagesIn(FSNow, cur.root) :
               SetFS(handle_existing_cover_file(FSNow, cur.root, cur.title_dir, file))
          /\ cur' = [cur EXCEPT !.found = TRUE, !.tried = Append(@, "local")]
          /\ pc' = after_source(TRUE, "cover_embedded")
  /\ UNCHANGED <<authors_file, opts, walk, pace, hist, errs, pre, tagger, call>>

\* extract_cover_art(file_path, title_dir): the picture embedded in the file,
\* "" when there is none or the file cannot be read
embedded_artwork(fs, file_path) ==
  IF isfile(fs, file_path) THEN fs.files[file_path].tags.cover ELSE ""

\* lines 524-525, audio_files[0] being any file of the listing
ExtractCoverArt ==
  /\ pc = "cover_embedded"
  /\ \E first \in cur.audio :
       LET artwork == embedded_artwork(FSNow, Append(cur.title_dir, first))
       IN IF artwork # ""
            THEN /\ SetFS(write(FSNow, Append(cur.title_dir, cover_jpg), FileNode(artwork)))
                 /\ cur' = [cur EXCEPT !.found = TRUE, !.tried = Append(@, "embedded")]
                 /\ pc' = after_source(TRUE, "itunes")
          ELSE /\ pc' = after_source(FALSE, "itunes")
               /\ cur' = [cur EXCEPT !.tried = Append(@, "embedded")]
               /\ UNCHANGED <<files, dirs>>
  /\ UNCHANGED <<authors_file, opts, walk, pace, hist, errs, pre, tagger, call>>

\* lines 286 and 332: no request is made without a title and an author
searchable(book_data) ==
  /\ book_data.title # <<>> /\ book_data.title # Unknown
  /\ book_data.author # <<>> /\ book_data.author # Unknown

\* what download_cover_from_itunes can do: nothing found or an error before the
\* file is opened (miss), an error while the file is written (partial), a
\* downloaded image (hit)
ItunesOutcomes ==
  {[out |-> "miss", img |-> ""], [out |-> "partial", img |-> "partial"]}
  \cup {[out |-> "hit", img |-> c] : c \in ItunesImages}

\* lines 528-531 with download_cover_from_itunes
ITunes ==
  /\ pc = "itunes"
  /\ IF ~searchable(cur.book_data)
       THEN /\ cur' = [cur EXCEPT !.itunes = "skip", !.tried = Append(@, "itunes")]
            /\ pc' = "ddgs"
            /\ UNCHANGED <<files, dirs>>
     ELSE \E o \in ItunesOutcomes :
            /\ cur' = [cur EXCEPT !.itunes = o.out, !.itimg = o.img,
                                  !.calls = Append(@, "itunes"),
                                  !.tried = Append(@, "itunes")]
            /\ IF o.out = "miss" THEN UNCHANGED <<files, dirs>>
               ELSE SetFS(write(FSNow, Append(cur.title_dir, itunes_cover_tmp), FileNode(o.img)))
            /\ pc' = IF o.out = "hit" THEN "analyze" ELSE "ddgs"
  /\ UNCHANGED <<authors_file, opts, walk, pace, hist, errs, pre, tagger, call>>

\* lines 533-544: the quality gate on the downloaded image
AnalyzeITunes ==
  /\ pc = "analyze"
  /\ LET itunes_temp_path == Append(cur.title_dir, itunes_cover_tmp)
         destination_path == Append(cur.title_dir, cover_jpg)
     IN IF is_good_cover(analyze_cover(FSNow, itunes_temp_path))
          THEN /\ SetFS(shutil_move(FSNow, itunes_temp_path, destination_path))
               /\ cur' = [cur EXCEPT !.found = TRUE]
               /\ pc' = "cleanup"
        ELSE /\ pc' = "ddgs"
             /\ UNCHANGED <<files, dirs, cur>>
  /\ UNCHANGED <<authors_file, opts, walk, pace, hist, errs, pre, tagger, call>>

\* what download_cover_from_internet can do: an image saved (ok), nothing found
\* or an error before the file is opened (fail), an error while cover.jpg is
\* written (partial)
DdgsOutcomes == {"ok", "fail", "partial"}

\* lines 545-552: what follows the secondary search after a catalog hit that
\* failed the gate; the result is <<fs, cover_art_found>>
after_ddgs_with_itunes(fs, ok, itunes_temp_path, destination_path) ==
  IF ok THEN <<fs, TRUE>>
  ELSE <<shutil_move(fs, itunes_temp_path, destination_path), TRUE>>

\* lines 545-556 with download_cover_from_internet
DDGS ==
  /\ pc = "ddgs"
  /\ LET itunes_temp_path == Append(cur.title_dir, itunes_cover_tmp)
         destination_path == Append(cur.title_dir, cover_jpg)
     IN \E o \in DdgsOutcomes :
          /\ (~searchable(cur.book_data) => o = "fail")
          /\ LET fs1 == IF o = "ok" THEN write(FSNow, destination_path, FileNode("ddgs_img"))
                        ELSE IF o = "partial"
                          THEN write(FSNow, destination_path, FileNode("partial"))
                        ELSE FSNow
                 r == IF cur.itunes = "hit"
                        THEN after_ddgs_with_itunes(fs1, o = "ok", itunes_temp_path,
                                                    destination_path)
                      ELSE <<fs1, o = "ok">>
             IN /\ SetFS(r[1])
                /\ cur' = [cur EXCEPT !.found = r[2],
                                      !.ddgs = IF searchable(cur.book_data) THEN o ELSE "skip",
                                      !.calls = IF searchable(cur.book_data)
                                                  THEN Append(@, "ddgs") ELSE @,
                                      !.tried = Append(@, "ddgs")]
  /\ pc' = "cleanup"
  /\ UNCHANGED <<authors_file, opts, walk, pace, hist, errs, pre, tagger, call>>

\* lines 558-560: the temporary download is removed if it is still there
Cleanup ==
  /\ pc = "cleanup"
  /\ LET itunes_temp_path == Append(cur.title_dir, itunes_cover_tmp)
     IN IF exists(FSNow, itunes_temp_path)
          THEN SetFS(remove(FSNow, itunes_temp_path))
        ELSE UNCHANGED <<files, dirs>>
  /\ cur' = [cur EXCEPT !.itimg = "", !.ddgs = "none", !.calls = <<>>, !.tried = <<>>]
  /\ pc' = "meta"
  /\ UNCHANGED <<authors_file, opts, walk, pace, hist, errs, pre, tagger, call>>

(***************************************************************************)
(* metadata.json, tags, final placement: lines 562-634                     *)
(***************************************************************************)
\* the order of the characters of the model's alphabet (code points)
CharOrder ==
  <<" ", "(", ")", "-", ".", "0", "1", "2", "3", "4", "5", "6", "7", "8", "9", "?">>
  \o Uppers \o <<"_">> \o Lowers \o <<"sup2">>
Ord(c) == CHOOSE i \in 1..Len(CharOrder) : CharOrder[i] = c
\* a < b for str
StrLess(a, b) ==
  \E k \in 1..(Len(b)) :
    /\ \A j \in 1..(k - 1) : j <= Len(a) /\ a[j] = b[j]
    /\ (k > Len(a) \/ Ord(a[k]) < Ord(b[k]))
RECURSIVE sorted(_)
\* sorted(names)
sorted(S) ==
  IF S = {} THEN <<>>
  ELSE LET m == CHOOSE x \in S : \A y \in S \ {x} : StrLess(x, y)
       IN <<m>> \o sorted(S \ {m})

\* audio_info.info.length: the duration of an audio file in seconds, by the
\* content of the file
Lengths == ("b1" :> 2) @@ ("b2" :> 3) @@ ("b10" :> 5)
info_length(node) == IF node.c \in DOMAIN Lengths THEN Lengths[node.c] ELSE 1

\* line 573: the title of the chapter of a file
chapter_title(filename) ==
  LET stem == splitext0(filename)
  IN title([i \in 1..Len(stem) |-> IF stem[i] = "_" THEN " " ELSE stem[i]])

RECURSIVE chapters_from(_, _, _, _, _)
\* lines 568-576: the loop over the audio files in the order given, i the
\* index of enumerate and current_time_s the durations summed so far
chapters_from(fs, title_dir, names, i, current_time_s) ==
  IF i >= Len(names) THEN <<>>
  ELSE LET duration_s == info_length(fs.files[Append(title_dir, names[i + 1])])
       IN <<[id |-> i, start |-> current_time_s, end |-> current_time_s + duration_s,
             title |-> chapter_title(names[i + 1])]>>
          \o chapters_from(fs, title_dir, names, i + 1, current_time_s + duration_s)

\* lines 564-576: the chapters of the book in title_dir
chapters(fs, title_dir) ==
  chapters_from(fs, title_dir, sorted(AudioIn(fs, title_dir)), 0, 0)

\* line 582: the record written to metadata.json (the fields the model reads)
audiobookshelf_data(book_data, chapter_list) ==
  [title |-> book_data.title,
   authors |-> IF book_data.author = Unknown THEN <<>> ELSE <<book_data.author>>,
   chapters |-> chapter_list]

\* lines 562-586
WriteMetadata ==
  /\ pc = "meta"
  /\ SetFS(write(FSNow, Append(cur.title_dir, metadata_json),
                 [FileNode("json") EXCEPT
                    !.meta = audiobookshelf_data(cur.book_data,
                                                 chapters(FSNow, cur.title_dir))]))
  /\ pc' = "tag"
  /\ UNCHANGED <<authors_file, opts, walk, cur, pace, hist, errs, pre, tagger, call>>

\* the container mutagen.File finds, by the extension of the file
container(name) ==
  IF endswith(lower(name), <<".", "m", "p", "3">>) THEN "MP3"
  ELSE IF endswith(lower(name), <<".", "m", "4", "b">>) THEN "MP4"
  ELSE IF endswith(lower(name), <<".", "f", "l", "a", "c">>) THEN "FLAC"
  ELSE "other"

\* audio.delete(): the tags are removed from the file on disk; in a FLAC file
\* the picture blocks are no Vorbis comments and stay
delete_tags(node, name) ==
  [node EXCEPT !.tags = IF container(name) = "FLAC"
                          THEN [NoTags EXCEPT !.cover = node.tags.cover]
                        ELSE NoTags]

\* add_picture on a FLAC file appends a picture block: the picture that was
\* there stays the first one
with_picture(node, name, cover_image_data) ==
  IF container(name) = "FLAC" /\ node.tags.cover # "" THEN node.tags.cover
  ELSE cover_image_data

\* tag_audio_file of ebooksort.py (lines 373-461): the tags on disk after the
\* call; audio.delete() has removed the old ones before the type is looked at
sort_tag_audio_file(node, name, metadata, cover_image_data, track_num, total_tracks) ==
  IF container(name) = "other" THEN delete_tags(node, name)
  ELSE [node EXCEPT !.tags =
          [author |-> IF metadata.authors # <<>> THEN metadata.authors[1] ELSE <<>>,
           album |-> metadata.title,
           track |-> track_num, total |-> total_tracks,
           cover |-> with_picture(node, name, cover_image_data)]]

RECURSIVE TagAll(_, _, _, _, _, _)
\* lines 603-607: the loop over the sorted audio files of title_dir
TagAll(fs, title_dir, names, metadata, cover_image_data, i) ==
  IF i > Len(names) THEN fs
  ELSE TagAll(write(fs, Append(title_dir, names[i]),
                    sort_tag_audio_file(fs.files[Append(title_dir, names[i])], names[i],
                                        metadata, cover_image_data, i, Len(names))),
              title_dir, names, metadata, cover_image_data, i + 1)

\* lines 592-607; audiobookshelf_data is the record that was written to
\* metadata.json
WriteTags ==
  /\ pc = "tag"
  /\ IF opts.no_tagging THEN UNCHANGED <<files, dirs>>
     ELSE LET cover_path == Append(cur.title_dir, cover_jpg)
              cover_image_data == IF cur.found /\ isfile(FSNow, cover_path)
                                    THEN FSNow.files[cover_path].c ELSE ""
          IN SetFS(TagAll(FSNow, cur.title_dir, sorted(AudioIn(FSNow, cur.title_dir)),
                          FSNow.files[Append(cur.title_dir, metadata_json)].meta,
                          cover_image_data, 1))
  /\ pc' = "final"
  /\ UNCHANGED <<authors_file, opts, walk, cur, pace, hist, errs, pre, tagger, call>>

\* line 614: where a book without cover goes
no_cover_path(afn, tfn) == Append(join(no_cover_dir, afn), tfn)
no_cover_target(fs, afn, tfn) == find_unique_foldername(fs, no_cover_path(afn, tfn))

\* where shutil.move of line 618 puts the folder of the book
no_cover_final(fs, title_dir, afn, tfn) ==
  LET final_destination == no_cover_target(fs, afn, tfn)
  IN move_target(makedirs(fs, dirname(final_destination)), title_dir, final_destination)

\* lines 610-618: the book stays, or its folder goes to the no-cover root
\* a book without cover that stays where it is: C30_TerminalOutcome fails
\* with it
final_placement_stay(fs, cover_art_found, title_dir, afn, tfn) == fs

\* lines 609-618: a book without cover goes to the no-cover root
final_placement(fs, cover_art_found, title_dir, afn, tfn) ==
  IF cover_art_found THEN fs
  ELSE LET final_destination == no_cover_target(fs, afn, tfn)
       IN shutil_move(makedirs(fs, dirname(final_destination)), title_dir, final_destination)

\* lines 622-624: os.rmdir(root), an OSError being logged only
remove_staging_folder(fs, root) == IF rmdir_ok(fs, root) THEN rmdir(fs, root) ELSE fs

\* lines 609-625
FinalPlacement ==
  /\ pc = "final"
  /\ unique_defined(FSNow, no_cover_path(cur.afn, cur.tfn))
  /\ SetFS(remove_staging_folder(
             final_placement(FSNow, cur.found, cur.title_dir, cur.afn, cur.tfn), cur.root))
  /\ cur' = [cur EXCEPT !.outcome = IF cur.found THEN "placed" ELSE "nocover",
                        !.final = IF cur.found THEN cur.title_dir
                                  ELSE no_cover_final(FSNow, cur.title_dir, cur.afn, cur.tfn)]
  /\ pc' = "finally"
  /\ UNCHANGED <<authors_file, opts, walk, pace, hist, errs, pre, tagger, call>>

\* the largest number of unexpected errors in a run
MaxErrors == 1

\* the steps at which the model lets a file operation fail: shutil.move of the
\* audio files (519), handle_existing_cover_file (523), shutil.move of the
\* downloaded cover (540), shutil.move to the no-cover root (618)
RaisePcs == {"move", "cover_local", "analyze", "final"}

\* lines 631-632: an unexpected error ends the iteration
Raise ==
  /\ pc \in RaisePcs
  /\ errs < MaxErrors
  /\ errs' = errs + 1
  /\ cur' = [cur EXCEPT !.outcome = "error", !.err = TRUE]
  /\ pc' = "finally"
  /\ UNCHANGED <<files, dirs, authors_file, opts, walk, pace, hist, pre, tagger, call>>

\* what is remembered of a finished iteration
HistOf(c) ==
  [root |-> c.root, afn |-> c.afn, tfn |-> c.tfn, title_dir |-> c.title_dir,
   final |-> c.final, outcome |-> c.outcome, found |-> c.found, err |-> c.err,
   data |-> IF c.outcome \in {"placed", "nocover"} THEN c.book_data ELSE None]

\* lines 633-634: the finally clause of the iteration
Finally ==
  /\ pc = "finally"
  /\ pace' = [pace EXCEPT !.sleeps = @ + 1]
  /\ hist' = Append(hist, HistOf(cur))
  /\ cur' = CurNone
  /\ pc' = "walk"
  /\ UNCHANGED <<files, dirs, authors_file, opts, walk, errs, pre, tagger, call>>

(***************************************************************************)
(* pre_organize_into_folders(source_dir = SOURCE, staging_dir = STAGING),  *)
(* not a dry run                                                           *)
(***************************************************************************)
\* lines 190-195: the staging directory is made, the source is listed
PreStart ==
  /\ pc = "pre_start"
  /\ SetFS(makedirs(FSNow, STAGING))
  /\ \E o \in Orders(listdir(FSNow, SOURCE)) :
       pre' = [PreNone EXCEPT !.items = o, !.src0 = SubTree(FSNow, SOURCE)]
  /\ pc' = "pre_rename"
  /\ UNCHANGED <<authors_file, opts, walk, cur, pace, hist, errs, tagger, call>>

\* names left as they are: C10_EndToEnd fails with it
standardize_asis(item) == item

\* lines 208-209: item.replace('_', ' ').replace('-', ' '), whitespace
\* collapsed and stripped
standardize(item) ==
  strip(collapse_ws([i \in 1..Len(item) |-> IF item[i] \in {"_", "-"} THEN " " ELSE item[i]]))

\* no item is renamed: C12_DirsPassThrough fails with it
rename_item_never(fs, item) == fs

\* lines 196-225: one item of the renaming pass
rename_item(fs, item) ==
  LET source_path == Append(SOURCE, item)
      new_item_name == standardize(item)
      new_path == join(SOURCE, new_item_name)
  IN IF ~exists(fs, source_path) THEN fs
     ELSE IF new_item_name = item THEN fs
     ELSE IF exists(fs, new_path) THEN fs
     ELSE rename(fs, source_path, new_path)

RenameItem ==
  /\ pc = "pre_rename" /\ pre.items # <<>>
  /\ SetFS(rename_item(FSNow, Head(pre.items)))
  /\ pre' = [pre EXCEPT !.items = Tail(@)]
  /\ UNCHANGED <<authors_file, opts, pc, walk, cur, pace, hist, errs, tagger, call>>

\* lines 228-232: the renaming pass is over, the source is listed again
ScanStart ==
  /\ pc = "pre_rename" /\ pre.items = <<>>
  /\ \E o \in Orders(listdir(FSNow, SOURCE)) :
       pre' = [pre EXCEPT !.items = o, !.src1 = SubTree(FSNow, SOURCE)]
  /\ pc' = "pre_scan"
  /\ UNCHANGED <<files, dirs, authors_file, opts, walk, cur, pace, hist, errs, tagger, call>>

\* base_name_map[base_name].append(item), the dict keeping insertion order
map_append(map, base_name, item) ==
  IF \E i \in DOMAIN map : map[i].base = base_name
    THEN [i \in DOMAIN map |->
            IF map[i].base = base_name
              THEN [map[i] EXCEPT !.files = Append(@, item)] ELSE map[i]]
  ELSE Append(map, [base |-> base_name, files |-> <<item>>])

\* lines 232-241: one item of the scan: a directory goes to staging, a loose
\* audio or image file is filed under its base name
ScanItem ==
  /\ pc = "pre_scan" /\ pre.items # <<>>
  /\ LET item == Head(pre.items)
         source_path == Append(SOURCE, item)
     IN IF isdir(FSNow, source_path)
          THEN /\ SetFS(shutil_move(FSNow, source_path, Append(STAGING, item)))
               /\ pre' = [pre EXCEPT !.items = Tail(@)]
        ELSE IF (is_audio(item) \/ is_image(item)) /\ get_base_name(item) # <<>>
          THEN /\ pre' = [pre EXCEPT !.items = Tail(@),
                                     !.map = map_append(@, get_base_name(item), item)]
               /\ UNCHANGED <<files, dirs>>
        ELSE /\ pre' = [pre EXCEPT !.items = Tail(@)]
             /\ UNCHANGED <<files, dirs>>
  /\ UNCHANGED <<authors_file, opts, pc, walk, cur, pace, hist, errs, tagger, call>>

\* line 242: the scan is over
ScanDone ==
  /\ pc = "pre_scan" /\ pre.items = <<>>
  /\ pc' = "pre_group"
  /\ UNCHANGED <<files, dirs, authors_file, opts, walk, cur, pace, hist, errs, pre, tagger, call>>

\* line 245: the staging folder of a group
group_folder(base_name) == join(STAGING, sanitize_filename(title(base_name)))

RECURSIVE move_group(_, _, _)
\* lines 249-252: the files of a group that are still in the source are moved
move_group(fs, file_list, dest_folder) ==
  IF file_list = <<>> THEN fs
  ELSE LET file == Head(file_list)
           source_file_path == Append(SOURCE, file)
       IN move_group(IF exists(fs, source_file_path)
                       THEN shutil_move(fs, source_file_path, Append(dest_folder, file))
                     ELSE fs,
                     Tail(file_list), dest_folder)

\* every group is staged, with or without audio file: C23_ImageOnlyKept fails
\* with it
stage_group_all(fs, group) ==
  move_group(makedirs(fs, group_folder(group.base)), group.files, group_folder(group.base))

\* lines 243-252: one group; a group without audio file is passed over
stage_group(fs, group) ==
  IF ~\E i \in DOMAIN group.files : is_audio(group.files[i]) THEN fs
  ELSE move_group(makedirs(fs, group_folder(group.base)), group.files,
                  group_folder(group.base))

GroupMove ==
  /\ pc = "pre_group" /\ pre.map # <<>>
  /\ SetFS(stage_group(FSNow, Head(pre.map)))
  /\ pre' = [pre EXCEPT !.map = Tail(@)]
  /\ UNCHANGED <<authors_file, opts, pc, walk, cur, pace, hist, errs, tagger, call>>

\* pre_organize_into_folders returns
PreDone ==
  /\ pc = "pre_group" /\ pre.map = <<>>
  /\ pc' = "pre_done"
  /\ UNCHANGED <<files, dirs, authors_file, opts, walk, cur, pace, hist, errs, pre, tagger, call>>

(***************************************************************************)
(* main of ebooksort.py (lines 637-681), not a dry run                     *)
(***************************************************************************)
\* lines 652-655: the staging directory is made, phase 1 begins
MainStart ==
  /\ pc = "main"
  /\ isdir(FSNow, SOURCE)
  /\ SetFS(makedirs(FSNow, STAGING))
  /\ pc' = "pre_start"
  /\ UNCHANGED <<authors_file, opts, walk, cur, pace, hist, errs, pre, tagger, call>>

\* lines 656-657: phase 2 begins
MainPhase2 ==
  /\ pc = "pre_done"
  /\ pc' = "start"
  /\ UNCHANGED <<files, dirs, authors_file, opts, walk, cur, pace, hist, errs, pre, tagger, call>>

\* lines 658-668: an empty staging directory is removed
MainFinish ==
  /\ pc = "done"
  /\ SetFS(IF listdir(FSNow, STAGING) = {} THEN rmdir(FSNow, STAGING) ELSE FSNow)
  /\ pc' = "main_done"
  /\ UNCHANGED <<authors_file, opts, walk, cur, pace, hist, errs, pre, tagger, call>>

(***************************************************************************)
(* write_tags.py, directory mode, on the library DEST                      *)
(***************************************************************************)
IsDigit(c) == c \in {"0", "1", "2", "3", "4", "5", "6", "7", "8", "9"}

RECURSIVE IntOf(_)
\* int(digits)
IntOf(ds) ==
  IF ds = <<>> THEN 0
  ELSE 10 * IntOf(SubSeq(ds, 1, Len(ds) - 1))
       + (CHOOSE v \in 0..9 : Dec(v) = <<ds[Len(ds)]>>)

\* c.isdigit() for a str c: true of the decimal digits and of other digit
\* characters too, such as the superscript two (U+00B2), which is the
\* character "sup2" of the model and which \d does not match
isdigit(c) ==
  c # <<>> /\ \A i \in 1..Len(c) : IsDigit(c[i]) \/ c[i] = "sup2"

\* int(c) if c.isdigit() else c, for a piece of the split that is no run of
\* decimal digits: int raises ValueError on a piece that isdigit() accepts
key_item(c) == IF isdigit(c) THEN [bad |-> TRUE] ELSE [s |-> c]

RECURSIVE natural_keys(_)
\* natural_keys(text): re.split('(\d+)', text) with the digit runs as numbers
natural_keys(text) ==
  LET ds == {i \in 1..Len(text) : IsDigit(text[i])}
  IN IF ds = {} THEN <<key_item(text)>>
     ELSE LET i == CHOOSE x \in ds : \A y \in ds : x <= y
              j == SpanEnd(text, i, {"0", "1", "2", "3", "4", "5", "6", "7", "8", "9"})
          IN <<key_item(SubSeq(text, 1, i - 1)), [n |-> IntOf(SubSeq(text, i, j - 1))]>>
             \o natural_keys(SubSeq(text, j, Len(text)))

\* files.sort(key=natural_keys) raises: the key of a file cannot be computed
sort_raises(S) ==
  \E x \in S : \E i \in DOMAIN natural_keys(x) : "bad" \in DOMAIN natural_keys(x)[i]

\* a < b for two items of such keys at the same index
KeyItemLess(a, b) ==
  IF "n" \in DOMAIN a THEN a.n < b.n
  ELSE a.s # b.s /\ (a.s = <<>> \/ StrLess(a.s, b.s))

\* a < b for two keys (list comparison)
KeyLess(a, b) ==
  \E k \in 1..Len(b) :
    /\ \A j \in 1..(k - 1) : j <= Len(a) /\ a[j] = b[j]
    /\ (k > Len(a) \/ KeyItemLess(a[k], b[k]))

RECURSIVE sort_audio_files(_)
\* sort_audio_files(files); files whose keys are equal keep the order of the
\* listing
sort_audio_files(S) ==
  IF S = {} THEN <<>>
  ELSE LET m == CHOOSE x \in S :
                  \A y \in S \ {x} : ~KeyLess(natural_keys(y), natural_keys(x))
       IN <<m>> \o sort_audio_files(S \ {m})

\* the modes of the main walk
Modes == {"smart", "all", "tags-only", "cover-only"}

\* tag_audio_file of write_tags.py (lines 80-200): the file on disk after the
\* call.  In mode cover-only the picture is replaced and saved unless dry_run;
\* in the other modes audio.delete() strips the tags on disk, then the new
\* ones are saved unless dry_run or the container is not supported
wt_tag_audio_file(node, name, metadata, cover_image_data, track_num, total_tracks, mode, dry_run) ==
  IF mode = "cover-only"
    THEN IF dry_run \/ container(name) = "other" THEN node
         ELSE [node EXCEPT !.tags.cover = cover_image_data]
  ELSE IF dry_run \/ container(name) = "other" THEN delete_tags(node, name)
  ELSE [node EXCEPT !.tags =
          [author |-> IF metadata.authors # <<>> THEN metadata.authors[1] ELSE <<>>,
           album |-> metadata.title,
           track |-> track_num, total |-> total_tracks,
           cover |-> IF mode \in {"smart", "all"}
                       THEN with_picture(node, name, cover_image_data)
                     ELSE delete_tags(node, name).tags.cover]]

RECURSIVE wt_tag_all(_, _, _, _, _, _, _, _)
\* lines 270-273: the loop over the sorted audio files
wt_tag_all(fs, book_path, names, metadata, cover_image_data, i, mode, dry_run) ==
  IF i > Len(names) THEN fs
  ELSE wt_tag_all(write(fs, Append(book_path, names[i]),
                        wt_tag_audio_file(fs.files[Append(book_path, names[i])], names[i],
                                          metadata, cover_image_data, i, Len(names),
                                          mode, dry_run)),
                  book_path, names, metadata, cover_image_data, i + 1, mode, dry_run)

\* lines 275-284: the marker is created, or kept as it is
touch_marker(fs, marker_filepath) ==
  IF isfile(fs, marker_filepath) THEN fs ELSE write(fs, marker_filepath, FileNode("marker"))

\* process_book_folder(book_path, marker_filepath, mode, dry_run)
process_book_folder(fs, book_path, marker_filepath, mode, dry_run) ==
  LET json_path == Append(book_path, metadata_json)
      cover_path == Append(book_path, cover_jpg)
  IN IF ~exists(fs, json_path) THEN fs
     ELSE IF AudioIn(fs, book_path) = {} THEN fs
     ELSE LET cover_image_data == IF isfile(fs, cover_path) THEN fs.files[cover_path].c ELSE ""
              tagged == wt_tag_all(fs, book_path, sort_audio_files(AudioIn(fs, book_path)),
                                   fs.files[json_path].meta, cover_image_data, 1,
                                   mode, dry_run)
          IN IF mode \in {"smart", "all"} /\ ~dry_run
               THEN touch_marker(tagged, marker_filepath)
             ELSE tagged

\* the largest number of runs of write_tags.py in a row
MaxRuns == 2

\* main, lines 357-383: a run starts on the library
TagStart ==
  /\ pc \in {"t_start", "t_done", "t_abort", "main_done"}
  /\ tagger.run < MaxRuns
  /\ isdir(FSNow, DEST)
  /\ \E m \in Modes, d \in BOOLEAN :
       tagger' = [mode |-> m, dry_run |-> d, run |-> tagger.run + 1,
                  skipped |-> {}, processed |-> {}, fs0 |-> FSNow,
                  after_smart |-> (tagger.mode = "smart" /\ ~tagger.dry_run)]
  /\ walk' = <<DEST>>
  /\ pc' = "t_walk"
  /\ UNCHANGED <<files, dirs, authors_file, opts, cur, pace, hist, errs, pre, call>>

\* a walk that skips nothing: C3_SmartIdempotent fails with it
skip_folder_never(fs, mode, marker_filepath) == FALSE

\* line 452: a folder that was tagged before is skipped in mode smart
skip_folder(fs, mode, marker_filepath) == mode = "smart" /\ exists(fs, marker_filepath)

\* lines 450-456: a folder with metadata.json that is skipped
TagSkip ==
  /\ pc = "t_walk" /\ walk # <<>>
  /\ isfile(FSNow, Append(Head(walk), metadata_json))
  /\ skip_folder(FSNow, tagger.mode, Append(Head(walk), marker_filename))
  /\ tagger' = [tagger EXCEPT !.skipped = @ \cup {Head(walk)}]
  /\ walk' = Tail(walk)
  /\ UNCHANGED <<files, dirs, authors_file, opts, pc, cur, pace, hist, errs, pre, call>>

\* line 268: the sort of the audio files of the folder raises
book_raises(fs, book_path) ==
  AudioIn(fs, book_path) # {} /\ sort_raises(AudioIn(fs, book_path))

\* lines 450-459 with line 268: the ValueError of sort_audio_files leaves
\* process_book_folder and main, which has no except clause: the run ends
\* with the folders that follow unvisited
TagAbort ==
  /\ pc = "t_walk" /\ walk # <<>>
  /\ isfile(FSNow, Append(Head(walk), metadata_json))
  /\ ~skip_folder(FSNow, tagger.mode, Append(Head(walk), marker_filename))
  /\ book_raises(FSNow, Head(walk))
  /\ tagger' = [tagger EXCEPT !.processed = @ \cup {Head(walk)}]
  /\ pc' = "t_abort"
  /\ UNCHANGED <<files, dirs, authors_file, opts, walk, cur, pace, hist, errs, pre, call>>

\* lines 450-459: a folder with metadata.json that is processed
TagBook ==
  /\ pc = "t_walk" /\ walk # <<>>
  /\ isfile(FSNow, Append(Head(walk), metadata_json))
  /\ ~skip_folder(FSNow, tagger.mode, Append(Head(walk), marker_filename))
  /\ ~book_raises(FSNow, Head(walk))
  /\ SetFS(process_book_folder(FSNow, Head(walk), Append(Head(walk), marker_filename),
                               tagger.mode, tagger.dry_run))
  /\ tagger' = [tagger EXCEPT !.processed = @ \cup {Head(walk)}]
  /\ walk' = Tail(walk)
  /\ UNCHANGED <<authors_file, opts, pc, cur, pace, hist, errs, pre, call>>

\* the subdirectories of root, listed in the order of their names
subdirs_listed(fs, root) ==
  LET names == sorted({m \in listdir(fs, root) : isdir(fs, Append(root, m))})
  IN [i \in 1..Len(names) |-> Append(root, names[i])]

\* lines 449-450: a folder without metadata.json; os.walk goes on below it.
\* Each folder is handled on its own, whatever the order of the listing; the
\* walk of the model takes the order of the names
TagDescend ==
  /\ pc = "t_walk" /\ walk # <<>>
  /\ ~isfile(FSNow, Append(Head(walk), metadata_json))
  /\ walk' = subdirs_listed(FSNow, Head(walk)) \o Tail(walk)
  /\ UNCHANGED <<files, dirs, authors_file, opts, pc, cur, pace, hist, errs, pre, tagger, call>>

\* lines 461-462: the walk is over
TagDone ==
  /\ pc = "t_walk" /\ walk = <<>>
  /\ pc' = "t_done"
  /\ UNCHANGED <<files, dirs, authors_file, opts, walk, cur, pace, hist, errs, pre, tagger, call>>

(***************************************************************************)
(* Specification of a run of organize_audio_files on a staged tree         *)
(***************************************************************************)
Init ==
  /\ \E S \in SUBSET (DOMAIN StagePool) :
       /\ Cardinality(S) <= MaxBooks
       /\ files = TreeOf(STAGING, StagePool, S).files @@ Library.files
       /\ dirs = TreeOf(STAGING, StagePool, S).dirs \cup Library.dirs
  /\ authors_file = <<>>
  /\ opts \in [no_tagging : {FALSE}, force_gemini : BOOLEAN]
  /\ pc = "start"
  /\ walk = <<>>
  /\ cur = CurNone
  /\ pace = [gem |-> FALSE, sleeps |-> 0]
  /\ hist = <<>>
  /\ errs = 0
  /\ pre = PreNone
  /\ call = CallNone
  /\ tagger = TaggerNone

Next ==
  \/ OrganizeStart
  \/ WalkMissing
  \/ WalkNoAudio
  \/ WalkBegin
  \/ WalkDone
  \/ GoogleBooks
  \/ Gemini
  \/ PlaceBegin
  \/ MoveUnclassified
  \/ MoveAudio
  \/ HandleExistingCover
  \/ ExtractCoverArt
  \/ ITunes
  \/ AnalyzeITunes
  \/ DDGS
  \/ Cleanup
  \/ WriteMetadata
  \/ WriteTags
  \/ FinalPlacement
  \/ Raise
  \/ Finally

Spec == Init /\ [][Next]_vars

(***************************************************************************)
(* Specification of a run of pre_organize_into_folders on a source tree    *)
(***************************************************************************)
\* what the source directory can hold: directories with their files, and
\* loose files (the path <<>> below their own name)
SourcePool ==
  (N_MyBookDir :> (<<N_mybook1>> :> FileNode("d1")))
  @@ (N_Other_Dir :> (<<N_xmp3>> :> FileNode("o1")))
  @@ (N_OtherDir :> (<<N_xmp3>> :> FileNode("o2")))
  @@ (N_mybook1 :> (<<>> :> FileNode("l1")))
  @@ (N_my_book2 :> (<<>> :> FileNode("l2")))
  @@ (N_mybook2 :> (<<>> :> FileNode("l3")))
  @@ (N_MyBook3 :> (<<>> :> FileNode("l4")))
  @@ (N_mybookjpg :> (<<>> :> FileNode("img1")))
  @@ (cover_jpg :> (<<>> :> FileNode("img2")))
  @@ (N_my_cover :> (<<>> :> FileNode("img3")))
  @@ (N_notes :> (<<>> :> FileNode("n1")))

\* the largest number of entries of the source directory
MaxItems == 3

InitStage ==
  /\ \E S \in SUBSET (DOMAIN SourcePool) :
       /\ Cardinality(S) <= MaxItems
       /\ files = TreeOf(SOURCE, SourcePool, S).files
       /\ dirs = TreeOf(SOURCE, SourcePool, S).dirs
  /\ authors_file = <<>>
  /\ opts = [no_tagging |-> FALSE, force_gemini |-> FALSE]
  /\ pc = "pre_start"
  /\ walk = <<>>
  /\ cur = CurNone
  /\ pace = [gem |-> FALSE, sleeps |-> 0]
  /\ hist = <<>>
  /\ errs = 0
  /\ pre = PreNone
  /\ call = CallNone
  /\ tagger = TaggerNone

NextStage ==
  \/ PreStart
  \/ RenameItem
  \/ ScanStart
  \/ ScanItem
  \/ ScanDone
  \/ GroupMove
  \/ PreDone

SpecStage == InitStage /\ [][NextStage]_vars

(***************************************************************************)
(* Specification of runs of write_tags.py on a library                     *)
(***************************************************************************)
\* a metadata.json with the given title and authors
MetaNode(t, as) == [FileNode("json") EXCEPT !.meta = [NoMeta EXCEPT !.title = t, !.authors = as]]

\* the folders the library can hold below DEST/Author
LibPool ==
  (N_TitleA :> ((<<N_2mp3>> :> WithArt("a2", "old_art")) @@ (<<N_10mp3>> :> FileNode("a10"))
                @@ (<<N_3flac>> :> WithArt("a3", "old_pic"))
                @@ (<<metadata_json>> :> MetaNode(N_TitleA, <<N_Author>>))
                @@ (<<cover_jpg>> :> FileNode("cov_a"))))
  @@ (N_TitleB :> ((<<N_1m4b>> :> FileNode("b1")) @@ (<<N_sogg>> :> WithArt("bs", "old_art"))
                   @@ (<<metadata_json>> :> MetaNode(N_TitleB, <<>>))
                   @@ (<<N_Extras, N_1mp3>> :> FileNode("x1"))
                   @@ (<<N_Extras, metadata_json>> :> MetaNode(N_Extras, <<>>))))
  @@ (N_TitleC :> (<<metadata_json>> :> MetaNode(N_TitleC, <<N_Author>>)))
  @@ (N_TitleD :> ((<<N_sup21>> :> FileNode("d1")) @@ (<<N_1mp3>> :> FileNode("d2"))
                   @@ (<<metadata_json>> :> MetaNode(N_TitleD, <<N_Author>>))))
  @@ (N_Loose :> (<<N_1mp3>> :> FileNode("l1")))

\* the largest number of folders below DEST/Author
MaxFolders == 2

RECURSIVE WithMarkers(_, _)
\* fs with a marker file in each folder of M
WithMarkers(fs, M) ==
  IF M = {} THEN fs
  ELSE LET d == CHOOSE x \in M : TRUE
       IN WithMarkers(write(fs, Append(d, marker_filename), FileNode("marker")), M \ {d})

InitTag ==
  /\ \E S \in SUBSET (DOMAIN LibPool) :
       /\ Cardinality(S) <= MaxFolders
       /\ \E M \in SUBSET {Append(Append(DEST, N_Author), n) : n \in S} :
            LET fs == WithMarkers(makedirs(TreeOf(Append(DEST, N_Author), LibPool, S), DEST), M)
            IN files = fs.files /\ dirs = fs.dirs
  /\ authors_file = <<>>
  /\ opts = [no_tagging |-> FALSE, force_gemini |-> FALSE]
  /\ pc = "t_start"
  /\ walk = <<>>
  /\ cur = CurNone
  /\ pace = [gem |-> FALSE, sleeps |-> 0]
  /\ hist = <<>>
  /\ errs = 0
  /\ pre = PreNone
  /\ call = CallNone
  /\ tagger = TaggerNone

NextTag ==
  \/ TagStart
  \/ TagSkip
  \/ TagBook
  \/ TagAbort
  \/ TagDescend
  \/ TagDone

SpecTag == InitTag /\ [][NextTag]_vars

(***************************************************************************)
(* Specification of a full run: ebooksort.py on a source directory with    *)
(* two parts of a book and a loose cover.jpg, then write_tags.py on the    *)
(* library                                                                 *)
(***************************************************************************)
ScenarioPool ==
  (N_Part1 :> (<<>> :> FileNode("p1")))
  @@ (N_Part2 :> (<<>> :> FileNode("p2")))
  @@ (cover_jpg :> (<<>> :> FileNode("src_img")))

InitE2E ==
  /\ files = TreeOf(SOURCE, ScenarioPool, DOMAIN ScenarioPool).files
  /\ dirs = TreeOf(SOURCE, ScenarioPool, DOMAIN ScenarioPool).dirs
  /\ authors_file = <<>>
  /\ opts \in [no_tagging : BOOLEAN, force_gemini : BOOLEAN]
  /\ pc = "main"
  /\ walk = <<>>
  /\ cur = CurNone
  /\ pace = [gem |-> FALSE, sleeps |-> 0]
  /\ hist = <<>>
  /\ errs = 0
  /\ pre = PreNone
  /\ call = CallNone
  /\ tagger = TaggerNone

\* the steps of the full run; the scenario has no staged folder without audio
\* files and none with subfolders, so WalkNoAudio and WalkMissing have no part
NextE2E ==
  \/ MainStart
  \/ PreStart
  \/ RenameItem
  \/ ScanStart
  \/ ScanItem
  \/ ScanDone
  \/ GroupMove
  \/ PreDone
  \/ MainPhase2
  \/ OrganizeStart
  \/ WalkBegin
  \/ WalkDone
  \/ GoogleBooks
  \/ Gemini
  \/ PlaceBegin
  \/ MoveUnclassified
  \/ MoveAudio
  \/ HandleExistingCover
  \/ ExtractCoverArt
  \/ ITunes
  \/ AnalyzeITunes
  \/ DDGS
  \/ Cleanup
  \/ WriteMetadata
  \/ WriteTags
  \/ FinalPlacement
  \/ Raise
  \/ Finally
  \/ MainFinish
  \/ TagStart
  \/ TagSkip
  \/ TagBook
  \/ TagDescend
  \/ TagDone

SpecE2E == InitE2E /\ [][NextE2E]_vars

(***************************************************************************)
(* Specification of calls of get_base_name on file names                   *)
(***************************************************************************)
\* the variables of a run, when no run is going on
NoRun ==
  /\ opts = [no_tagging |-> FALSE, force_gemini |-> FALSE]
  /\ walk = <<>>
  /\ cur = CurNone
  /\ pace = [gem |-> FALSE, sleeps |-> 0]
  /\ hist = <<>>
  /\ errs = 0
  /\ pre = PreNone
  /\ tagger = TaggerNone

\* the pieces the base strings are made of
P_Book == <<"B", "o", "o", "k">>
P_My == <<"M", "y">>
P_sp == <<" ">>
P_2 == <<" ", "2">>
P_part == <<" ", "p", "a", "r", "t">>
P_us == <<"_">>
P_cd == <<"C", "d", " ", "1">>
Pieces == {P_Book, P_My, P_sp, P_2, P_part, P_us, P_cd}

MaxPieces == 2

RECURSIVE Concat(_)
\* the concatenation of a sequence of strings
Concat(ss) == IF ss = <<>> THEN <<>> ELSE Head(ss) \o Concat(Tail(ss))

\* the base strings: one to MaxPieces pieces in a row
Bases ==
  {Concat(ss) : ss \in UNION {[1..n -> Pieces] : n \in 1..MaxPieces}}

\* the three ways a file name numbers the third file of a base
S_part == <<" ", "p", "a", "r", "t", " ", "3", ".", "m", "p", "3">>
S_dash == <<" ", "-", " ", "3", ".", "m", "p", "3">>
S_paren == <<" ", "(", "3", ")", ".", "m", "p", "3">>
NumberedAs == {S_part, S_dash, S_paren}

InitName ==
  /\ files = <<>> /\ dirs = {}
  /\ authors_file = <<>>
  /\ pc = "name"
  /\ NoRun
  /\ \E b \in Bases : call = [fn |-> "ready", base |-> b]

\* base_name = get_base_name(item), line 240, on the file name base + suffix
GetBaseName ==
  /\ pc = "name"
  /\ call.fn = "ready"
  /\ \E suffix \in NumberedAs :
       call' = [fn |-> "get_base_name", base |-> call.base,
                filename |-> call.base \o suffix,
                result |-> get_base_name(call.base \o suffix)]
  /\ UNCHANGED <<files, dirs, authors_file, opts, pc, walk, cur, pace, hist, errs, pre, tagger>>

NextName == GetBaseName

SpecName == InitName /\ [][NextName]_vars

(***************************************************************************)
(* Specification of calls of add_author_to_known_list by one process       *)
(***************************************************************************)
A_JANE == <<" ", "J", "A", "N", "E", " ", "D", "O", "E", " ">>
A_unknown == <<"u", "n", "k", "n", "o", "w", "n">>
A_bob == <<"b", "o", "b">>
A_blank == <<" ">>
A_oneil == <<"o", "'", "n", "e", "i", "l">>

\* the names the function is called with
AuthorNames == {<<>>, Unknown, A_unknown, A_janedoe, A_JANE, A_bob, A_blank, A_oneil}

\* the known-authors file before the calls: missing or empty, written by
\* this program, or edited by hand and left without a newline at its end
AuthorFiles ==
  {<<>>,
   A_JaneDoe \o <<"\n">>,
   A_JaneDoe \o <<"\n">> \o title(A_bob) \o <<"\n">>,
   A_JaneDoe}

\* the largest number of calls
MaxCalls == 3

InitAuthors ==
  /\ files = <<>> /\ dirs = {}
  /\ authors_file \in AuthorFiles
  /\ pc = "authors"
  /\ NoRun
  /\ call = [fn |-> "add_author_to_known_list", file0 |-> authors_file, names |-> <<>>]

\* add_author_to_known_list(author_name), line 515
AddAuthor ==
  /\ pc = "authors"
  /\ Len(call.names) < MaxCalls
  /\ \E author_name \in AuthorNames :
       /\ authors_file' = add_author_to_known_list(authors_file, author_name)
       /\ call' = [call EXCEPT !.names = Append(@, author_name)]
  /\ UNCHANGED <<files, dirs, opts, pc, walk, cur, pace, hist, errs, pre, tagger>>

NextAuthors == AddAuthor

SpecAuthors == InitAuthors /\ [][NextAuthors]_vars

(***************************************************************************)
(* Specification of calls of find_unique_foldername, the loop of lines     *)
(* 182-187 taken step by step                                              *)
(***************************************************************************)
\* the paths asked for: two folders of DEST, and one written with a
\* separator at its end
AskedPaths == {Append(DEST, N_MyBookDir), Append(DEST, N_x), DEST \o <<N_MyBookDir, <<>>>>}

\* what the disk can hold: the folders asked for, their names with the
\* suffixes 2 and 3, and the file "x (2)"
TakenDirs ==
  {Append(DEST, N_MyBookDir), Suffixed(Append(DEST, N_MyBookDir), 2),
   Suffixed(Append(DEST, N_MyBookDir), 3), Append(DEST, N_x),
   Suffixed(Append(DEST, N_x), 3), Suffixed(DEST \o <<N_MyBookDir, <<>>>>, 2)}
TakenFiles == {Suffixed(Append(DEST, N_x), 2)}

RECURSIVE MakeAll(_, _)
\* fs with the directories of D made
MakeAll(fs, D) ==
  IF D = {} THEN fs
  ELSE LET d == CHOOSE x \in D : TRUE IN MakeAll(makedirs(fs, d), D \ {d})

InitUnique ==
  /\ \E D \in SUBSET TakenDirs, F \in SUBSET TakenFiles :
       LET fs == MakeAll([files |-> [q \in F |-> FileNode("f")], dirs |-> {DEST}], D)
       IN files = fs.files /\ dirs = fs.dirs
  /\ authors_file = <<>>
  /\ pc = "unique"
  /\ NoRun
  /\ \E path \in AskedPaths : call = [fn |-> "ready", path |-> path]

\* the path is returned whatever the disk holds: C27_UniqueSuffix fails with
\* it
scan_found_lax(fs, new_path) == TRUE

\* line 186: if not os.path.exists(new_path)
scan_found(fs, new_path) == ~exists(fs, new_path)

\* lines 180-182: the path is returned if it is free, else the scan begins
UniqueCall ==
  /\ pc = "unique" /\ call.fn = "ready"
  /\ call' = IF ~path_exists(FSNow, call.path)
               THEN [fn |-> "returned", path |-> call.path, result |-> call.path, counter |-> 0]
             ELSE [fn |-> "scanning", path |-> call.path, counter |-> 2]
  /\ UNCHANGED <<files, dirs, authors_file, opts, pc, walk, cur, pace, hist, errs, pre, tagger>>

\* lines 183-187: one turn of the loop
UniqueStep ==
  /\ pc = "unique" /\ call.fn = "scanning"
  /\ LET new_path == Suffixed(call.path, call.counter)
     IN call' = IF scan_found(FSNow, new_path)
                  THEN [fn |-> "returned", path |-> call.path, result |-> new_path,
                        counter |-> call.counter]
                ELSE [call EXCEPT !.counter = @ + 1]
  /\ UNCHANGED <<files, dirs, authors_file, opts, pc, walk, cur, pace, hist, errs, pre, tagger>>

NextUnique ==
  \/ UniqueCall
  \/ UniqueStep

SpecUnique == InitUnique /\ [][NextUnique]_vars

(***************************************************************************)
(* A run of organize_audio_files in which every step that can be taken is  *)
(* taken in the end: the program is sequential, and each call it makes,    *)
(* to the disk or to an external service, returns or fails in finite time  *)
(* (the HTTP requests carry timeout=15).  No failure is ever obliged:       *)
(* Raise is a step the run may take, never one it must take.               *)
(***************************************************************************)
\* weak fairness of the return at line 635, and weak fairness of Next
\* written out: a step of Next can be taken in every state but the one
\* with pc = "done", so a fair run either is done infinitely often or takes
\* steps infinitely often
Fair ==
  /\ WF_vars(WalkDone)
  /\ []<>(pc = "done") \/ []<><<Next>>_vars

\* the staged trees of these runs: the folders Alpha and Gamma/Alpha, with
\* the lookup starting at Google Books
InitLive ==
  /\ \E S \in SUBSET {N_Alpha, N_Gamma} :
       /\ Cardinality(S) <= MaxBooks
       /\ files = TreeOf(STAGING, StagePool, S).files @@ Library.files
       /\ dirs = TreeOf(STAGING, StagePool, S).dirs \cup Library.dirs
  /\ authors_file = <<>>
  /\ opts = [no_tagging |-> FALSE, force_gemini |-> FALSE]
  /\ pc = "start"
  /\ walk = <<>>
  /\ cur = CurNone
  /\ pace = [gem |-> FALSE, sleeps |-> 0]
  /\ hist = <<>>
  /\ errs = 0
  /\ pre = PreNone
  /\ call = CallNone
  /\ tagger = TaggerNone

SpecLive == InitLive /\ [][Next]_vars /\ Fair

(***************************************************************************)
(* Properties of organize_audio_files                                      *)
(***************************************************************************)
\* the iterations that classified their book and ended without error
Settled(h) == h.outcome \in {"placed", "nocover"}

\* C1: two books of a run whose metadata sanitize to the same Author/Title
\* pair end in two distinct final folders, the second being the first one
\* suffixed " (2)"
C1_PathUniqueness ==
  \A i, j \in DOMAIN hist :
    (i < j /\ Settled(hist[i]) /\ Settled(hist[j])
       /\ hist[i].afn = hist[j].afn /\ hist[i].tfn = hist[j].tfn)
    => /\ hist[j].final # hist[i].final
       /\ hist[j].final = Suffixed(hist[i].final, 2)

\* C4: when the cover resolution of a book is over, cover_art_found is true
\* exactly if cover.jpg exists in the book's folder
C4_CoverResultExact ==
  pc = "meta" => (cur.found <=> isfile(FSNow, Append(cur.title_dir, cover_jpg)))

\* the quality gate of the spec: square, and both sides at least the minimum
PassesGate(img) ==
  /\ image_size(img)[1] = image_size(img)[2]
  /\ image_size(img)[1] >= min_resolution
  /\ image_size(img)[2] >= min_resolution

\* C5: after a catalog hit, cover.jpg is the catalog image when it passes the
\* gate (the secondary source not being asked), the secondary image when the
\* gate fails and the secondary search succeeds, and the catalog image when
\* both fail; the book then ends in the main library with its cover
C5_QualityGate ==
  /\ (pc = "cleanup" /\ cur.itunes = "hit") =>
       LET cover == Append(cur.title_dir, cover_jpg)
       IN /\ cur.found
          /\ isfile(FSNow, cover)
          /\ PassesGate(cur.itimg) =>
               (FSNow.files[cover].c = cur.itimg /\ cur.ddgs = "none")
          /\ (~PassesGate(cur.itimg) /\ cur.ddgs = "ok") =>
               FSNow.files[cover].c = "ddgs_img"
          /\ (~PassesGate(cur.itimg) /\ cur.ddgs # "ok") =>
               (FSNow.files[cover].c = cur.itimg /\ cur.ddgs \in {"fail", "partial"})
  /\ (pc = "finally" /\ cur.itunes = "hit" /\ ~cur.err) =>
       /\ cur.outcome = "placed"
       /\ isfile(FSNow, Append(cur.title_dir, cover_jpg))

\* C5 witness: the gate failed, the secondary search failed, and the low
\* resolution catalog image was kept
C5_Witness ==
  /\ pc = "cleanup" /\ cur.itunes = "hit" /\ cur.itimg = "it_50x50" /\ cur.ddgs = "fail"
  /\ FSNow.files[Append(cur.title_dir, cover_jpg)].c = "it_50x50"

\* C6: Google Books is asked first unless force_gemini skips it; Gemini is
\* asked exactly if Google Books was skipped, found nothing, failed or gave
\* the title "Unknown"; a failure of a source does not end the iteration; a
\* Google Books answer with a title is the book's metadata
C6_FallbackChain ==
  /\ pc = "classify" =>
       /\ cur.calls \in {<<"google">>, <<"google", "gemini">>, <<"gemini">>}
       /\ (cur.google = "uncalled") <=> opts.force_gemini
       /\ (cur.gemini # "uncalled") <=>
            (opts.force_gemini \/ cur.google \in {"none", "error", "unknown"})
       /\ cur.google = "ok" => (cur.book_data = cur.gdata /\ cur.gemini = "uncalled")
  /\ pc \in {"google", "gemini", "classify"} => ~cur.err

\* C6 witness: Google Books failed, Gemini answered
C6_Witness ==
  pc = "classify" /\ cur.google = "error" /\ cur.gemini = "ok" /\ ~cur.err

\* C7: between the end of a Gemini call and the start of the next book there
\* is exactly one cooldown delay
C7_OneCooldown == (pc = "walk" /\ pace.gem) => pace.sleeps = 1

\* C8: an unclassified folder is moved whole and unmodified to
\* unclassified/<name>, or to the first free " (n)" name; no metadata.json is
\* written and the known-authors file is not touched
C8_UnclassifiedRouting ==
  (pc = "finally" /\ cur.outcome = "unclassified") =>
    LET base == Append(unclassified_dir, Last(cur.root))
    IN /\ ~exists(FSNow, cur.root)
       /\ isdir(FSNow, cur.final)
       /\ SubTree(FSNow, cur.final) = cur.sub0
       /\ \/ cur.final = base
          \/ \E n \in 2..MaxSuffix :
               /\ cur.final = Suffixed(base, n)
               /\ exists(FSNow, base)
               /\ \A m \in 2..(n - 1) : exists(FSNow, Suffixed(base, m))
       /\ ~exists(FSNow, Append(cur.final, metadata_json))
       /\ authors_file = cur.authors0
       /\ \A q \in DOMAIN cur.sub0.files :
            FSNow.files[cur.final \o q].tags = cur.sub0.files[q].tags

\* C8 witness: the name was taken in unclassified and the folder got " (2)"
C8_Witness ==
  /\ pc = "finally" /\ cur.outcome = "unclassified"
  /\ cur.final = Suffixed(Append(unclassified_dir, Last(cur.root)), 2)

\* the book folders of the main library
MainFolders ==
  {d \in dirs : Len(d) = Len(DEST) + 2 /\ IsPrefix(DEST, d)
                /\ d[Len(DEST) + 1] \notin {unclassified, no_cover_folder}}

\* C9: a book processed without error is in the main library at Author/Title
\* if a cover was found; otherwise its whole folder is in the no-cover root at
\* Author/Title (or the first free " (n)" name) and nothing of it is left in
\* the main library; so the folders left in the main library hold cover.jpg
C9_QuarantineRouting ==
  /\ (pc = "finally" /\ cur.outcome \in {"placed", "nocover"}) =>
       LET nc == join(join(no_cover_dir, cur.afn), cur.tfn)
       IN /\ \A f \in cur.audio : isfile(FSNow, Append(cur.final, f))
          /\ isfile(FSNow, Append(cur.final, metadata_json))
          /\ cur.found =>
               /\ cur.outcome = "placed"
               /\ cur.final = join(join(DEST, cur.afn), cur.tfn)
               /\ isfile(FSNow, Append(cur.final, cover_jpg))
          /\ ~cur.found =>
               /\ cur.outcome = "nocover"
               /\ ~exists(FSNow, cur.title_dir)
               /\ \/ cur.final = nc
                  \/ \E n \in 2..MaxSuffix :
                       /\ cur.final = Suffixed(nc, n)
                       /\ exists(FSNow, nc)
                       /\ \A m \in 2..(n - 1) : exists(FSNow, Suffixed(nc, m))
  /\ pc \in {"walk", "done"} =>
       \A d \in MainFolders :
         (\A i \in DOMAIN hist : ~(hist[i].err /\ hist[i].title_dir = d))
           => isfile(FSNow, Append(d, cover_jpg))

\* a second book without cover for the same Author/Title went to the " (2)"
\* folder of the no-cover root
C9_Witness ==
  /\ pc = "finally" /\ cur.outcome = "nocover"
  /\ cur.final = Suffixed(join(join(no_cover_dir, cur.afn), cur.tfn), 2)

\* C14: a book placed without error lies exactly two levels below its root
\* (the destination root, or the no-cover root for a book without cover), in
\* an Author folder and a Title folder with non-empty names
C14_LibraryLayout ==
  (pc = "finally" /\ cur.outcome \in {"placed", "nocover"}) =>
    LET root == IF cur.found THEN DEST ELSE no_cover_dir
    IN /\ IsPrefix(root, cur.final)
       /\ Len(cur.final) = Len(root) + 2
       /\ cur.final[Len(root) + 1] # <<>>
       /\ cur.final[Len(root) + 2] # <<>>

\* when the walk is over, a staging folder that still holds audio files is
\* the folder of an iteration that ended with an error
OnlyFailedLeft ==
  pc = "done" =>
    \A d \in dirs :
      (IsPrefix(STAGING, d) /\ d # STAGING /\ AudioIn(FSNow, d) # {})
        => \E i \in DOMAIN hist : hist[i].err /\ hist[i].root = d

\* C16: an iteration that ends with an unexpected error leaves its staging
\* folder as it found it, and the walk goes on to the folders after it
C16_ErrorIsolation ==
  /\ (pc = "finally" /\ cur.err) => SubTree(FSNow, cur.root) = cur.sub0
  /\ OnlyFailedLeft

\* the part of C16 about the run going on: after an error the walk resumes,
\* and at its end every other folder with audio files has been dealt with
C16_RunGoesOn ==
  /\ OnlyFailedLeft
  /\ (pc = "done" /\ errs > 0) => \E i \in DOMAIN hist : hist[i].err

\* an error was raised in the first of two books and the second was placed
C16_Resumed ==
  /\ pc = "done" /\ Len(hist) = 2
  /\ hist[1].err /\ Settled(hist[2])

\* the chapters list of the metadata.json that was just written
ChaptersNow == FSNow.files[Append(cur.title_dir, metadata_json)].meta.chapters

RECURSIVE LengthSum(_, _, _)
\* the durations of the first n files of names in title_dir, summed
LengthSum(title_dir, names, n) ==
  IF n = 0 THEN 0
  ELSE LengthSum(title_dir, names, n - 1)
       + info_length(FSNow.files[Append(title_dir, names[n])])

\* the chapters list takes the files in the order names, with the boundaries
\* summed in that order
ChaptersFollow(names) ==
  /\ Len(ChaptersNow) = Len(names)
  /\ \A i \in 1..Len(names) :
       /\ ChaptersNow[i].title = chapter_title(names[i])
       /\ ChaptersNow[i].start = LengthSum(cur.title_dir, names, i - 1)
       /\ ChaptersNow[i].end
            = ChaptersNow[i].start + info_length(FSNow.files[Append(cur.title_dir, names[i])])

\* C18: when metadata.json has been written, its chapters list takes the
\* audio files of the book in natural sort order (digit runs compared as
\* integers), each chapter starting at the sum of the durations of the files
\* before it and ending at its start plus its own duration
C18_ChapterOrder ==
  pc = "tag" => ChaptersFollow(sort_audio_files(AudioIn(FSNow, cur.title_dir)))

\* the chapters list takes the files in the order of sorted(), with the
\* boundaries summed in that order
C18_SortedOrder ==
  pc = "tag" => ChaptersFollow(sorted(AudioIn(FSNow, cur.title_dir)))

\* metadata.json has been written for a book of 1.mp3, 2.mp3 and 10.mp3
C18_ThreeFiles ==
  /\ pc = "tag"
  /\ AudioIn(FSNow, cur.title_dir) = {N_1mp3, N_2mp3, N_10mp3}
  /\ ChaptersNow[2].start = 2 /\ ChaptersNow[2].end = 7

\* the cover sources in the order of the code
CoverOrder == <<"local", "embedded", "itunes", "ddgs">>

\* C21: the cover sources are consulted in the order existing image file,
\* embedded artwork, catalog search, secondary search, each only while no
\* earlier source has given the book its cover (cover_art_found is false),
\* and a request to the catalog or the secondary search is made only after
\* the two local sources were consulted and gave nothing
C21_SourceOrder ==
  [][/\ (cur'.tried # cur.tried /\ cur'.tried # <<>>) =>
          /\ ~cur.found
          /\ cur'.tried = SubSeq(CoverOrder, 1, Len(cur.tried) + 1)
     /\ (pc \in {"itunes", "ddgs"} /\ cur'.calls # cur.calls) =>
          /\ ~cur.found
          /\ SubSeq(cur.tried, 1, 2) = <<"local", "embedded">>
          /\ ImagesIn(FSNow, cur.root) = {}
          /\ \E f \in cur.audio :
               embedded_artwork(FSNow, Append(cur.title_dir, f)) = ""]_vars

\* C21 witness: all four sources were consulted in a row, both searches
\* having been asked
C21_Witness ==
  /\ pc = "cleanup"
  /\ cur.tried = CoverOrder
  /\ cur.calls = <<"itunes", "ddgs">>

\* the image file of the source folder was taken and no other source was
\* consulted
C21_LocalOnly ==
  /\ pc = "meta" /\ cur.found
  /\ cur.tried = <<"local">> /\ cur.calls = <<>>

\* no itunes_cover.tmp is in the folder of the book of the iteration
NoTempFile ==
  /\ ~exists(FSNow, Append(cur.title_dir, itunes_cover_tmp))
  /\ ~exists(FSNow, Append(cur.final, itunes_cover_tmp))

\* C22: when the iteration of a book ends, by placement, by quarantine or by
\* an error, no itunes_cover.tmp is in the folder of the book
C22_TempCleanup == pc = "finally" => NoTempFile

\* the same while no iteration of the run has ended by an error
C22_CleanWithoutError == (pc = "finally" /\ errs = 0) => NoTempFile

\* the move of a downloaded image that passed the gate has failed and the
\* download is still in the folder of the book
C22_TempLeft ==
  /\ pc = "finally" /\ cur.err /\ cur.itimg = "it_1000x1000"
  /\ isfile(FSNow, Append(cur.title_dir, itunes_cover_tmp))

\* an iteration that asked the catalog has ended without error
C22_AskedAndEnded ==
  /\ pc = "finally" /\ ~cur.err /\ cur.itunes \in {"hit", "partial"}

\* the file that was at the relative path r of the staging folder when the
\* iteration began is still there
StillStaged(r) ==
  /\ isfile(FSNow, cur.root \o r)
  /\ files[cur.root \o r].c = cur.sub0.files[r].c

\* the file that was at the relative path r of the staging folder when the
\* iteration began is now outside the staging root
Relocated(r) ==
  \E q \in DOMAIN files : ~IsPrefix(STAGING, q) /\ files[q].c = cur.sub0.files[r].c

\* C24: when the iteration of a staging folder ends, every file the folder
\* held is either where it was in the folder or has been relocated out of
\* staging; so the folder is gone only if nothing was left in it
C24_StagingKept ==
  pc = "finally" => \A r \in DOMAIN cur.sub0.files : StillStaged(r) \/ Relocated(r)

\* the same for the files that are no images
C24_NonImagesKept ==
  pc = "finally" =>
    \A r \in DOMAIN cur.sub0.files : is_image(Last(r)) \/ StillStaged(r) \/ Relocated(r)

\* a classified book has been placed and the extras of its staging folder
\* are still there
C24_ExtrasLeft ==
  /\ pc = "finally" /\ cur.outcome = "placed"
  /\ StillStaged(<<N_Notes, N_notes>>)
  /\ Relocated(<<N_1mp3>>)

\* the top-level folder of staging that the directory d lies in
TopFolder(d) == SubSeq(d, 1, Len(STAGING) + 1)

\* the directories for which an iteration (a metadata lookup) has begun
Looked == {hist[i].root : i \in DOMAIN hist} \cup (IF cur.root = <<>> THEN {} ELSE {cur.root})

\* C25: every iteration is on a top-level folder of the staging root, and no
\* top-level folder has more than one iteration: a subdirectory is never
\* looked up as a book of its own
C25_OneBookPerFolder ==
  /\ \A d \in Looked : d = TopFolder(d)
  /\ \A i, j \in DOMAIN hist : i # j => TopFolder(hist[i].root) # TopFolder(hist[j].root)
  /\ \A i \in DOMAIN hist : cur.root # <<>> => TopFolder(hist[i].root) # TopFolder(cur.root)

\* no directory has more than one iteration
C25_OncePerDirectory ==
  /\ \A i, j \in DOMAIN hist : i # j => hist[i].root # hist[j].root
  /\ \A i \in DOMAIN hist : hist[i].root # cur.root

\* the subdirectory Alpha of the staged folder Gamma has been placed as a
\* book of its own
C25_SubdirBook ==
  \E i \in DOMAIN hist :
    /\ hist[i].root = STAGING \o <<N_Gamma, N_Alpha>>
    /\ hist[i].outcome = "placed"

\* the audio files of the disk, and their contents
AudioPaths == {q \in DOMAIN files : is_audio(Last(q))}
AudioIds == {files[q].c : q \in AudioPaths}

\* C28: no step of a run of organize_audio_files loses an audio file: the
\* audio files staged at the start are, one path each, in the main library,
\* the no-cover root, the unclassified root or staging at the end, and the move
\* of a book's audio files into Author/Title replaces no file that an
\* earlier book put there
C28_AudioConserved ==
  [][/\ AudioIds' = AudioIds
     /\ Cardinality(AudioPaths') = Cardinality(AudioPaths)]_vars

\* the part of C28 that holds: every step but the move of the audio files
\* into Author/Title keeps every audio file
C28_OtherStepsConserve ==
  [][(files' # files /\ ~(pc = "move" /\ pc' = "cover_local")) =>
       /\ AudioIds' = AudioIds
       /\ Cardinality(AudioPaths') = Cardinality(AudioPaths)]_vars

\* two staged books have been dealt with without an error, and 1.mp3 of
\* one of them is nowhere on the disk
C28_AudioLost ==
  /\ pc = "done" /\ errs = 0 /\ Len(hist) = 2
  /\ {hist[1].root, hist[2].root} = {Append(STAGING, N_Alpha), Append(STAGING, N_Beta)}
  /\ "a1" \notin AudioIds \/ "b1" \notin AudioIds

\* the files of a book folder that make the placed book: its audio files,
\* cover.jpg and metadata.json
BookFiles(d) ==
  {q \in DOMAIN files : dirname(q) = d /\ (is_audio(Last(q)) \/ Last(q) \in {cover_jpg, metadata_json})}
\* the folders in which an earlier book of this run was placed with a cover
PlacedDirs == {hist[i].title_dir : i \in {j \in 1..Len(hist) : hist[j].outcome = "placed"}}

\* C29: once a book is placed with its cover in Author/Title, no later step
\* of the run takes an audio file, cover.jpg or metadata.json out of that
\* folder, and none rewrites its metadata.json
C29_PlacedStays ==
  [][files' # files =>
       \A d \in PlacedDirs :
         /\ \A q \in BookFiles(d) : q \in DOMAIN files'
         /\ files'[Append(d, metadata_json)] = files[Append(d, metadata_json)]]_vars

\* the part of C29 that holds: the folder of a placed book is left as it is
\* by the processing of every book that does not resolve to the same
\* Author/Title
C29_OtherBooksKeep ==
  [][files' # files =>
       \A d \in PlacedDirs \ {cur.title_dir} :
         /\ \A q \in BookFiles(d) : q \in DOMAIN files'
         /\ files'[Append(d, metadata_json)] = files[Append(d, metadata_json)]]_vars

\* a book was placed with its cover, and at the end of the run its folder is
\* no longer in the main library: a later book took it to the no-cover root
C29_PlacedMoved ==
  /\ pc = "done" /\ errs = 0 /\ Len(hist) = 2
  /\ hist[1].outcome = "placed" /\ hist[2].outcome = "nocover"
  /\ hist[2].title_dir = hist[1].title_dir
  /\ ~isdir(FSNow, hist[1].title_dir)
  /\ isfile(FSNow, Append(hist[2].final, cover_jpg))

\* the outcomes of an iteration over a folder with audio files
Outcomes == {"placed", "nocover", "unclassified", "error"}
\* the directories below the staging root that hold audio files
StagedBooks == {d \in dirs : IsPrefix(STAGING, d) /\ d # STAGING /\ AudioIn(FSNow, d) # {}}

\* what the outcome of the iteration that ends means on the disk
OutcomeReached ==
  /\ cur.outcome \in Outcomes
  /\ cur.outcome = "placed" =>
       /\ cur.final = cur.title_dir /\ IsPrefix(DEST, cur.final)
       /\ ~IsPrefix(no_cover_dir, cur.final) /\ ~IsPrefix(unclassified_dir, cur.final)
       /\ isfile(FSNow, Append(cur.final, cover_jpg))
       /\ isfile(FSNow, Append(cur.final, metadata_json))
       /\ \A f \in cur.audio : isfile(FSNow, Append(cur.final, f))
       /\ AudioIn(FSNow, cur.root) = {}
  /\ cur.outcome = "nocover" =>
       /\ IsPrefix(no_cover_dir, cur.final)
       /\ ~isfile(FSNow, Append(cur.final, cover_jpg)) \/ ~cur.found
       /\ isfile(FSNow, Append(cur.final, metadata_json))
       /\ \A f \in cur.audio : isfile(FSNow, Append(cur.final, f))
       /\ AudioIn(FSNow, cur.root) = {}
  /\ cur.outcome = "unclassified" =>
       /\ IsPrefix(unclassified_dir, cur.final)
       /\ \A f \in cur.audio : isfile(FSNow, Append(cur.final, f))
       /\ ~isdir(FSNow, cur.root)
  /\ cur.outcome = "error" => (cur.err /\ errs > 0 /\ isdir(FSNow, cur.root))

\* every folder dealt with has one outcome, and a folder that still holds
\* audio files in staging is one whose iteration ended by an error
AllSettled ==
  /\ \A i \in 1..Len(hist) : hist[i].outcome \in Outcomes
  /\ \A i, j \in 1..Len(hist) : hist[i].root = hist[j].root => i = j
  /\ \A d \in StagedBooks :
       \E i \in 1..Len(hist) : hist[i].root = d /\ hist[i].outcome = "error"

\* C30: organize_audio_files ends, every folder of staging that holds audio
\* files has by then been given exactly one of the outcomes placed,
\* quarantined in the no-cover root, moved to unclassified or left in staging
\* after a logged error, and the outcome is what the disk shows when the
\* iteration of the folder ends
C30_TerminalOutcome ==
  /\ <>(pc = "done" /\ AllSettled)
  /\ [](pc = "finally" => OutcomeReached)

\* C30 witness: the run is over, one folder was quarantined in the no-cover
\* root and the iteration of another ended by a logged error
C30_Witness ==
  /\ pc = "done" /\ AllSettled /\ Len(hist) = 2
  /\ hist[1].outcome = "nocover" /\ hist[2].outcome = "error"

(***************************************************************************)
(* Properties of pre_organize_into_folders                                 *)
(***************************************************************************)
\* the contents of the audio files of the source when the run began
AudioAtStart == {pre.src0.files[q].c : q \in {r \in DOMAIN pre.src0.files : is_audio(Last(r))}}

\* C2: when pre_organize_into_folders has finished, every audio file the
\* source held exists exactly once, in the source or under staging, with its
\* content
C2_StagingLosesNoData ==
  pc = "pre_done" =>
    \A c \in AudioAtStart :
      Cardinality({q \in DOMAIN files :
                     /\ files[q].c = c
                     /\ (IsPrefix(SOURCE, q) \/ IsPrefix(STAGING, q))}) = 1

\* the names of the directories at the top of the source when the run began
TopDirs == {d[1] : d \in {x \in pre.src0.dirs : Len(x) = 1}}

\* the source held directories only, and at least one
AllDirs == TopDirs # {} /\ \A r \in DOMAIN pre.src0.files : Len(r) > 1

\* C12 as stated: on a source of directories only, staging ends up with as
\* many entries as the source had, and every directory is under staging with
\* the name and the contents it had
C12_DirsUnchanged ==
  (pc = "pre_done" /\ AllDirs) =>
    /\ Cardinality(listdir(FSNow, STAGING)) = Cardinality(TopDirs)
    /\ \A d \in TopDirs : SubTree(FSNow, Append(STAGING, d)) = SubTree(pre.src0, <<d>>)

\* C12 amended: on a source of directories only, no group folder is made and
\* every directory is under staging with the contents it had; its name there
\* is its name with "_" and "-" replaced by spaces, whitespace collapsed and
\* trimmed, unless the source held an entry of that name, and then it keeps
\* its name
C12_DirsPassThrough ==
  (pc = "pre_done" /\ AllDirs) =>
    /\ Cardinality(listdir(FSNow, STAGING)) = Cardinality(TopDirs)
    /\ listdir(FSNow, SOURCE) = {}
    /\ \A d \in TopDirs :
         LET n == IF standardize(d) \in TopDirs \/ standardize(d) = <<>>
                    THEN d ELSE standardize(d)
         IN SubTree(FSNow, Append(STAGING, n)) = SubTree(pre.src0, <<d>>)

\* C12 witness: a source of two directories, one of them "Other_Dir", has
\* been staged and "Other_Dir" is now "Other Dir"
C12_Witness ==
  /\ pc = "pre_done" /\ AllDirs
  /\ TopDirs = {N_MyBookDir, N_Other_Dir}
  /\ isdir(FSNow, Append(STAGING, N_OtherDir))
  /\ isfile(FSNow, STAGING \o <<N_OtherDir, N_xmp3>>)

\* a source holding "Other_Dir" next to "Other Dir" has been staged: the
\* renaming was passed over
C12_KeptName ==
  /\ pc = "pre_done" /\ AllDirs
  /\ TopDirs = {N_OtherDir, N_Other_Dir}
  /\ isdir(FSNow, Append(STAGING, N_Other_Dir))

\* the files of the group that is staged next which are still in the source
GroupFiles ==
  {Head(pre.map).files[i] : i \in {j \in DOMAIN Head(pre.map).files :
                                     exists(FSNow, Append(SOURCE, Head(pre.map).files[j]))}}

\* the group that is staged next holds an audio file
GroupStaged ==
  /\ pc = "pre_group" /\ pre.map # <<>>
  /\ \E i \in DOMAIN Head(pre.map).files : is_audio(Head(pre.map).files[i])

\* C17: the files of a loose-file group are staged in a folder of the
\* staging root that was not there before the group was staged: a group is
\* never put into a directory that was moved to staging earlier in the call
\* or into the folder of another group
C17_GroupsKeptApart ==
  [][GroupStaged =>
       \E n \in listdir(FSNow, STAGING)' \ listdir(FSNow, STAGING) :
         \A f \in GroupFiles :
           /\ isfile(FSNow, STAGING \o <<n, f>>)'
           /\ files'[STAGING \o <<n, f>>] = files[Append(SOURCE, f)]]_vars

\* a group has been staged in the folder of a directory that the source held
C17_MergedIntoDir ==
  /\ pc = "pre_done"
  /\ N_MyBookDir \in TopDirs
  /\ isfile(FSNow, STAGING \o <<N_MyBookDir, N_mybook2>>)

\* two groups of different base names have been staged in one folder
C17_MergedGroups ==
  /\ pc = "pre_done"
  /\ TopDirs = {}
  /\ isfile(FSNow, STAGING \o <<N_MyBookDir, N_mybook2>>)
  /\ isfile(FSNow, STAGING \o <<N_MyBookDir, N_MyBook3>>)

\* the loose image files of the tree t (the source at some moment)
LooseImages(t) == {r[1] : r \in {q \in DOMAIN t.files : Len(q) = 1 /\ is_image(q[1])}}

\* no loose audio file of the tree t has the base name of the file n
ImageOnly(t, n) ==
  ~\E q \in DOMAIN t.files :
     Len(q) = 1 /\ is_audio(q[1]) /\ get_base_name(q[1]) = get_base_name(n)

\* the file of content c is in the source under the name n and nowhere else
KeptInSource(n, c) ==
  /\ isfile(FSNow, Append(SOURCE, n))
  /\ FSNow.files[Append(SOURCE, n)] = FileNode(c)
  /\ \A q \in DOMAIN files : files[q].c = c => q = Append(SOURCE, n)

MarkedAtStart ==
  {d \in tagger.fs0.dirs : /\ isfile(tagger.fs0, Append(d, metadata_json))
                           /\ isfile(tagger.fs0, Append(d, marker_filename))}

\* C3: in a smart run, a folder that holds metadata.json and the marker is
\* skipped and nothing in it is written; a smart run that follows a smart run
\* leaves the disk as it found it
C3_SmartIdempotent ==
  /\ (pc \in {"t_walk", "t_done"} /\ tagger.mode = "smart") =>
       \A d \in MarkedAtStart :
         /\ SubTree(FSNow, d) = SubTree(tagger.fs0, d)
         /\ d \notin tagger.processed
         /\ pc = "t_done" =>
              \/ d \in tagger.skipped
              \/ \E k \in 1..(Len(d) - 1) :
                   isfile(FSNow, Append(SubSeq(d, 1, k), metadata_json))
  /\ (pc = "t_done" /\ tagger.mode = "smart" /\ tagger.after_smart) =>
       FSNow = tagger.fs0

\* C3 witness: the second of two smart runs has skipped a folder that the
\* first one tagged
C3_Witness ==
  /\ pc = "t_done" /\ tagger.mode = "smart" /\ tagger.after_smart
  /\ \E d \in tagger.skipped :
       \E f \in AudioIn(FSNow, d) : FSNow.files[Append(d, f)].tags.album # <<>>

\* C13: a dry run of write_tags.py, in any mode, leaves every file on disk
\* (tags, metadata.json, cover.jpg, markers) as it was when the run began
C13_DryRunChangesNothing ==
  (pc \in {"t_walk", "t_done"} /\ tagger.dry_run) => FSNow = tagger.fs0

\* the tags of the file agree with the metadata.json and the cover.jpg of
\* its folder
TagsConsistent(fs, book_path, name) ==
  LET t == fs.files[Append(book_path, name)].tags
      m == fs.files[Append(book_path, metadata_json)].meta
      cover_path == Append(book_path, cover_jpg)
  IN /\ t.author = (IF m.authors # <<>> THEN m.authors[1] ELSE <<>>)
     /\ t.album = m.title
     /\ t.cover = (IF isfile(fs, cover_path) THEN fs.files[cover_path].c ELSE "")

\* the folders the run has processed and that hold the marker
MarkedByRun ==
  {d \in tagger.processed : isfile(FSNow, Append(d, marker_filename))}

\* C19: in a run of mode smart or all that is not a dry run, every audio file
\* of a folder that the run has processed and that holds the marker has tags
\* that agree with the metadata.json and the cover.jpg of the folder
C19_MarkerSound ==
  (pc \in {"t_walk", "t_done"} /\ tagger.mode \in {"smart", "all"} /\ ~tagger.dry_run) =>
    \A d \in MarkedByRun :
      \A n \in AudioIn(FSNow, d) : TagsConsistent(FSNow, d, n)

\* the same for the files of a container that tag_audio_file supports and
\* that held no picture
C19_SupportedSound ==
  (pc \in {"t_walk", "t_done"} /\ tagger.mode \in {"smart", "all"} /\ ~tagger.dry_run) =>
    \A d \in MarkedByRun :
      \A n \in AudioIn(FSNow, d) :
        (container(n) # "other" /\ tagger.fs0.files[Append(d, n)].tags.cover = "")
          => TagsConsistent(FSNow, d, n)

\* a run of mode all has marked "Title B", whose s.ogg was skipped as
\* unsupported and has no tags
C19_UnsupportedMarked ==
  /\ pc = "t_done" /\ tagger.mode = "all" /\ ~tagger.dry_run
  /\ <<DEST[1], N_Author, N_TitleB>> \in MarkedByRun
  /\ FSNow.files[<<DEST[1], N_Author, N_TitleB, N_sogg>>].tags = NoTags
  /\ FSNow.files[<<DEST[1], N_Author, N_TitleB, N_1m4b>>].tags.album = N_TitleB

\* the audio files of the folders the run has processed
ProcessedAudio ==
  UNION {{Append(d, n) : n \in AudioIn(FSNow, d)} : d \in tagger.processed}

\* the markers of fs: the paths of the marker files with their nodes
Markers(fs) == {<<q, fs.files[q]>> : q \in {r \in DOMAIN fs.files : Last(r) = marker_filename}}

\* in mode cover-only the text tags of every audio file are as they were
CoverOnlyKeepsText ==
  (pc \in {"t_walk", "t_done"} /\ tagger.mode = "cover-only") =>
    \A q \in ProcessedAudio :
      [FSNow.files[q].tags EXCEPT !.cover = ""] = [tagger.fs0.files[q].tags EXCEPT !.cover = ""]

\* in the narrow modes no marker is made, changed or removed
NarrowKeepsMarkers ==
  (pc \in {"t_walk", "t_done"} /\ tagger.mode \in {"tags-only", "cover-only"}) =>
    Markers(FSNow) = Markers(tagger.fs0)

\* C20: in mode tags-only the embedded picture of every audio file is as it
\* was before the run, in mode cover-only the text tags of every audio file
\* are as they were, and in neither mode a marker is made or changed
C20_NarrowModesFrame ==
  /\ (pc \in {"t_walk", "t_done"} /\ tagger.mode = "tags-only") =>
       \A q \in ProcessedAudio : FSNow.files[q].tags.cover = tagger.fs0.files[q].tags.cover
  /\ CoverOnlyKeepsText
  /\ NarrowKeepsMarkers

\* the parts of C20 that hold
C20_OtherParts == CoverOnlyKeepsText /\ NarrowKeepsMarkers

\* a run of mode cover-only has given 2.mp3 of "Title A" the picture of
\* cover.jpg
C20_CoverOnlyRun ==
  /\ pc = "t_done" /\ tagger.mode = "cover-only" /\ ~tagger.dry_run
  /\ <<DEST[1], N_Author, N_TitleA>> \in tagger.processed
  /\ FSNow.files[<<DEST[1], N_Author, N_TitleA, N_2mp3>>].tags.cover = "cov_a"

\* the place of the file n among the audio files names in natural order
NaturalPlace(names, n) ==
  1 + Cardinality({m \in names : KeyLess(natural_keys(m), natural_keys(n))})

\* the audio files of the folder d are sorted and those of a supported
\* container carry their place in natural order as track, of the number of
\* audio files
Numbered(d) ==
  LET names == AudioIn(FSNow, d)
  IN /\ ~sort_raises(names)
     /\ Len(sort_audio_files(names)) = Cardinality(names)
     /\ \A n \in names :
          /\ \E i \in 1..Cardinality(names) : sort_audio_files(names)[i] = n
          /\ container(n) # "other" =>
               /\ files[Append(d, n)].tags.track = NaturalPlace(names, n)
               /\ files[Append(d, n)].tags.total = Cardinality(names)

\* C26: in a run that writes text tags and is not a dry run, the audio files
\* of every folder handed to process_book_folder are numbered 1..N in
\* natural sort order (digit runs compared as integers), each with a
\* distinct track and total N, sort_audio_files returning a permutation of
\* the files in that order
C26_TrackNumbering ==
  (tagger.mode \in {"smart", "all", "tags-only"} /\ ~tagger.dry_run) =>
    \A d \in tagger.processed : AudioIn(FSNow, d) # {} => Numbered(d)

\* the same for the folders whose sort does not raise
C26_NumberedIfSorted ==
  (tagger.mode \in {"smart", "all", "tags-only"} /\ ~tagger.dry_run) =>
    \A d \in tagger.processed :
      (AudioIn(FSNow, d) # {} /\ ~sort_raises(AudioIn(FSNow, d))) => Numbered(d)

\* "Title A" has been numbered: 2.mp3, 3.flac, 10.mp3 are tracks 1, 2, 3
C26_NaturalOrder ==
  LET d == <<DEST[1], N_Author, N_TitleA>>
  IN /\ d \in tagger.processed /\ tagger.mode = "all" /\ ~tagger.dry_run
     /\ files[Append(d, N_2mp3)].tags.track = 1
     /\ files[Append(d, N_3flac)].tags.track = 2
     /\ files[Append(d, N_10mp3)].tags.track = 3
     /\ files[Append(d, N_10mp3)].tags.total = 3

(***************************************************************************)
(* Properties of the full run                                              *)
(***************************************************************************)
\* the book of the scenario was resolved to title "My Book", author
\* "Jane Doe" and its iteration ended without error
ScenarioResolved ==
  /\ pc \in {"main_done", "t_walk", "t_done"}
  /\ Len(hist) = 1
  /\ Settled(hist[1])
  /\ hist[1].data = BD(T_MyBook, A_JaneDoe)

\* the folder d holds a file with content c
HoldsContent(d, c) ==
  \E q \in DOMAIN files : dirname(q) = d /\ files[q].c = c

\* C10 as the scenario states it: after the full run and a tagging run that
\* writes markers, Jane Doe/My Book in the main library holds both audio
\* files, cover.jpg being the image of the source, metadata.json with title
\* "My Book", and the marker
C10_Scenario ==
  (/\ ScenarioResolved /\ pc = "t_done"
   /\ tagger.mode \in {"smart", "all"} /\ ~tagger.dry_run) =>
    LET book == DEST \o <<A_JaneDoe, T_MyBook>>
    IN /\ HoldsContent(book, "p1") /\ HoldsContent(book, "p2")
       /\ isfile(FSNow, Append(book, cover_jpg))
       /\ FSNow.files[Append(book, cover_jpg)].c = "src_img"
       /\ isfile(FSNow, Append(book, metadata_json))
       /\ FSNow.files[Append(book, metadata_json)].meta.title = T_MyBook
       /\ isfile(FSNow, Append(book, marker_filename))

\* C10 amended: the two audio files, renamed to "MyBook Part 1.mp3" and
\* "MyBook Part 2.mp3", and metadata.json with title "My Book" are in
\* Jane Doe/My Book of the main library if the cover search found a cover
\* (cover.jpg then is that found image, never the image of the source) and of
\* the no-cover root otherwise; the source's cover.jpg stays in the source;
\* the staging directory is gone; the marker is there after every run of
\* write_tags.py in mode smart or all that is no dry run, and not before any
\* run of write_tags.py
C10_EndToEnd ==
  ScenarioResolved =>
    LET book == hist[1].final
    IN /\ book = (IF hist[1].found THEN DEST ELSE no_cover_dir) \o <<A_JaneDoe, T_MyBook>>
       /\ isfile(FSNow, Append(book, N_Part1std))
       /\ FSNow.files[Append(book, N_Part1std)].c = "p1"
       /\ isfile(FSNow, Append(book, N_Part2std))
       /\ FSNow.files[Append(book, N_Part2std)].c = "p2"
       /\ isfile(FSNow, Append(book, metadata_json))
       /\ FSNow.files[Append(book, metadata_json)].meta.title = T_MyBook
       /\ hist[1].found =>
            /\ isfile(FSNow, Append(book, cover_jpg))
            /\ FSNow.files[Append(book, cover_jpg)].c # "src_img"
       /\ isfile(FSNow, Append(SOURCE, cover_jpg))
       /\ FSNow.files[Append(SOURCE, cover_jpg)].c = "src_img"
       /\ ~exists(FSNow, STAGING)
       /\ (pc = "t_done" /\ tagger.mode \in {"smart", "all"} /\ ~tagger.dry_run) =>
            isfile(FSNow, Append(book, marker_filename))
       /\ tagger.run = 0 => ~isfile(FSNow, Append(book, marker_filename))

\* C10 witness: the book is in the main library with a cover, and a smart run
\* of write_tags.py has left the marker
C10_Witness ==
  /\ ScenarioResolved /\ pc = "t_done" /\ hist[1].found
  /\ tagger.mode = "smart" /\ ~tagger.dry_run
  /\ isfile(FSNow, DEST \o <<A_JaneDoe, T_MyBook, marker_filename>>)
  /\ isfile(FSNow, DEST \o <<A_JaneDoe, T_MyBook, N_Part1std>>)
(***************************************************************************)
(* Properties of get_base_name                                             *)
(***************************************************************************)
\* C11: for every base string, the file names "<base> part 3.mp3",
\* "<base> - 3.mp3" and "<base> (3).mp3" all have the base name <base>,
\* trimmed and with its whitespace collapsed
C11_GroupingKey ==
  call.fn = "get_base_name" => call.result = strip(collapse_ws(call.base))

(***************************************************************************)
(* Properties of add_author_to_known_list                                  *)
(***************************************************************************)
\* no two lines of the sequence are equal ignoring case
NoCaseDupes(L) == \A i, j \in DOMAIN L : lower(L[i]) = lower(L[j]) => i = j

\* the file after the calls against the file before them: no two lines equal
\* ignoring case, the lines that were there unchanged and in place, every
\* further line the title-cased trimmed form of a name that was passed, and
\* none of them for the empty name or "Unknown"
AuthorsKept(text0, text, names) ==
  LET L0 == file_lines(text0)
      L == file_lines(text)
  IN /\ NoCaseDupes(L)
     /\ Len(L0) <= Len(L)
     /\ \A i \in 1..Len(L0) : L[i] = L0[i]
     /\ \A i \in (Len(L0) + 1)..Len(L) :
          \E k \in DOMAIN names :
            /\ names[k] \notin {<<>>, Unknown}
            /\ L[i] = title(strip(names[k]))

\* C15: under any sequence of calls, a known-authors file without two lines
\* equal ignoring case keeps that property, keeps the lines it had, and gets
\* only title-cased trimmed names, never for the empty name or "Unknown"
C15_KnownAuthors ==
  (pc = "authors" /\ NoCaseDupes(file_lines(call.file0))) =>
    AuthorsKept(call.file0, authors_file, call.names)

\* the same for a file that is empty or ends with a newline
C15_NewlineTerminated ==
  (/\ pc = "authors" /\ NoCaseDupes(file_lines(call.file0))
   /\ (call.file0 = <<>> \/ Last(call.file0) = "\n")) =>
    AuthorsKept(call.file0, authors_file, call.names)

(***************************************************************************)
(* Properties of find_unique_foldername                                    *)
(***************************************************************************)
\* the entries of the disk
Entries == (DOMAIN files) \cup dirs

\* C27: find_unique_foldername(p) returns p when p does not exist, and
\* otherwise p with the suffix " (n)" for the least n >= 2 whose path does
\* not exist; the path returned does not exist; and the scan ends, the
\* counter never passing the number of entries of the disk by more than two
C27_UniqueSuffix ==
  /\ call.fn = "returned" =>
       /\ ~exists(FSNow, call.result)
       /\ ~path_exists(FSNow, call.path) => call.result = call.path
       /\ path_exists(FSNow, call.path) =>
            /\ call.counter >= 2
            /\ call.result = Suffixed(call.path, call.counter)
            /\ \A m \in 2..(call.counter - 1) : exists(FSNow, Suffixed(call.path, m))
       /\ call.result = find_unique_foldername(FSNow, call.path)
  /\ call.fn = "scanning" =>
       /\ call.counter <= Cardinality(Entries) + 2
       /\ \A m \in 2..(call.counter - 1) : exists(FSNow, Suffixed(call.path, m))

\* C27 witness: "My Book" and its suffixes 2 and 3 are taken and the call
\* has returned "My Book (4)"
C27_Witness ==
  /\ call.fn = "returned"
  /\ call.path = Append(DEST, N_MyBookDir)
  /\ call.result = Suffixed(Append(DEST, N_MyBookDir), 4)

\* a path written with a separator at its end got its suffix after the
\* separator
C27_TrailingSeparator ==
  /\ call.fn = "returned"
  /\ call.path = DEST \o <<N_MyBookDir, <<>>>>
  /\ call.result = DEST \o <<N_MyBookDir, <<" ", "(", "3", ")">>>>

=============================================================================
